---- MODULE Spec2Model ----
(***************************************************************************)
(* State-machine model of the RTi Cashflowops backend (src/server.js):     *)
(* the account store, the registration and login handlers, the JWT         *)
(* middleware (authenticateToken), the entitlement middleware              *)
(* (checkSubscription), the admin middleware (requireAdmin), the Stripe    *)
(* webhook and the passage of time; and of the variant                     *)
(* src/backend_server.js, whose token carries the role.                    *)
(*                                                                         *)
(* Spec is the identity flow of server.js (register, login, profile),      *)
(* SpecSub its entitlement flow (login, gated and admin routes, webhook),  *)
(* SpecToken the life of a token (refresh, profile update, downgrade),     *)
(* SpecProfile the profile update, SpecRace concurrent gated requests of   *)
(* one account, SpecFail the same with failing store operations,           *)
(* SpecRenew the same with renewal events, SpecLoginRace concurrent        *)
(* logins, SpecLists the alert routes and the listings, SpecLapse the      *)
(* listings after a subscription has ended, SpecBroadcast the alert        *)
(* writes and their broadcasts.  SpecBackend is the identity flow of       *)
(* backend_server.js, SpecDemo the in-memory variant                       *)
(* src/unnamed/part_001, SpecRegisterRace its concurrent registrations,    *)
(* SpecMini the smallest variant src/unnamed/part_000.                     *)
(*                                                                         *)
(* Strings are sequences of one-character strings, so that trim() and      *)
(* toLowerCase() are computed and not assumed.  The clock counts coarse    *)
(* ticks; a Date is a tick number, an optional Date a set of at most one.  *)
(***************************************************************************)
EXTENDS Integers, Sequences, FiniteSets, TLC

VARIABLES
    users,      \* the User collection, in insertion order; _id = position
    now,        \* the wall clock (what new Date() / Date.now() returns)
    held,       \* the bearer token the client under observation holds
    resp,       \* the response to the last request handled
    inflight,   \* concurrent requests between their awaits: position and req.user
    alerts,     \* the Alert collection, in insertion order; _id = position
    emitted     \* what the server has emitted to its socket.io clients, in order

vars == <<users, now, held, resp, inflight, alerts, emitted>>

\* A handler that runs without interleaving on a server without alerts leaves
\* the rest of the state alone
Quiet == UNCHANGED <<inflight, alerts, emitted>>

----------------------------------------------------------------------------
(* Bounds of the model *)

MaxTime == 2          \* the clock runs 0..MaxTime
MaxLogins == 1        \* successful logins explored, over all accounts

(* Program constants, in clock ticks *)

TokenTTL == 2         \* expiresIn: '30d' (one tick = 15 days)
MinPasswordLen == 6
MinUsernameLen == 3
MaxUsernameLen == 20
MaxBioLen == 500

Null == "null"

\* An optional Date: unset (undefined or null), or set to one tick
NoDate == {}
DateAt(t) == {t}
IsSet(date) == date # NoDate
Before(date, t) == \A d \in date : d < t
NoToken == [userId |-> 0, iat |-> 0, exp |-> 0, sig |-> <<>>]

----------------------------------------------------------------------------
(* Strings *)

UpperToLower ==
    [A |-> "a", B |-> "b", C |-> "c", D |-> "d", E |-> "e", F |-> "f",
     G |-> "g", H |-> "h", I |-> "i", J |-> "j", K |-> "k", L |-> "l",
     M |-> "m", N |-> "n", O |-> "o", P |-> "p", Q |-> "q", R |-> "r",
     S |-> "s", T |-> "t", U |-> "u", V |-> "v", W |-> "w", X |-> "x",
     Y |-> "y", Z |-> "z"]

Whitespace == {" ", "\t", "\n"}

\* String.prototype.toLowerCase
toLowerCase(s) ==
    [i \in 1..Len(s) |->
        IF s[i] \in DOMAIN UpperToLower THEN UpperToLower[s[i]] ELSE s[i]]

RECURSIVE TrimStart(_)
TrimStart(s) ==
    IF s # <<>> /\ Head(s) \in Whitespace THEN TrimStart(Tail(s)) ELSE s

RECURSIVE TrimEnd(_)
TrimEnd(s) ==
    IF s # <<>> /\ s[Len(s)] \in Whitespace
    THEN TrimEnd(SubSeq(s, 1, Len(s) - 1))
    ELSE s

\* String.prototype.trim
trim(s) == TrimEnd(TrimStart(s))

\* The strings requests carry.  The empty string stands for a missing field
\* as well: both are falsy in the handlers' `!x` tests.
Empty == <<>>
S_admin == <<"a","d","m","i","n">>
S_testuser == <<"t","e","s","t","u","s","e","r">>
S_bob == <<"b","o","b">>
S_bobPadded == <<" ","b","o","b"," ">>
S_ab == <<"a","b">>
S_long == <<"a","b","c","d","e","f","g","h","i","j","k","l","m","n","o","p","q","r","s","t","u">>
E_admin == <<"a","d","m","i","n","@","r","t","i","-","c","a","s","h","f","l","o","w","o","p","s",".","c","o","m">>
E_test == <<"t","e","s","t","@","e","x","a","m","p","l","e",".","c","o","m">>
E_testUpper == <<"T","E","S","T","@","e","x","a","m","p","l","e",".","c","o","m">>
E_bob == <<"b","o","b","@","x",".","i","o">>
E_bobMixed == <<"B","o","b","@","X",".","i","o">>
P_admin123 == <<"a","d","m","i","n","1","2","3">>
P_test123 == <<"t","e","s","t","1","2","3">>
P_secret1 == <<"s","e","c","r","e","t","1">>
P_short == <<"s","h","o","r","t">>

\* Register requests: a missing field, a short and a long username, fresh
\* accounts (plain, padded and mixed-case), a username that equals another
\* account's email, collisions on username, on email and on email up to
\* letter case, and a collision with a short password.
RegisterRequests ==
    {<<Empty, E_bob, P_secret1>>,
     <<S_ab, E_bob, P_secret1>>,
     <<S_long, E_bob, P_secret1>>,
     <<S_bob, E_bob, P_secret1>>,
     <<S_bobPadded, E_bobMixed, P_secret1>>,
     <<E_test, E_bob, P_secret1>>,
     <<S_testuser, E_bob, P_secret1>>,
     <<S_bob, E_test, P_secret1>>,
     <<S_bob, E_testUpper, P_secret1>>,
     <<S_testuser, E_test, P_short>>}

\* Login requests: a missing field, an unknown identifier, accounts by
\* username and by email (plain, padded, mixed-case) with their own password
\* and with another account's password.
LoginRequests ==
    {<<Empty, P_test123>>,
     <<S_ab, P_secret1>>,
     <<S_admin, P_test123>>,
     <<S_testuser, P_test123>>,
     <<E_test, P_test123>>,
     <<E_testUpper, P_test123>>,
     <<E_test, P_secret1>>,
     <<S_bob, P_secret1>>,
     <<S_bobPadded, P_secret1>>,
     <<E_bobMixed, P_secret1>>}
Salts == {"s1"}

----------------------------------------------------------------------------
(* bcrypt and jsonwebtoken, idealised: a hash determines and is determined  *)
(* by (salt, password) and is compared by re-hashing; a signature is a MAC  *)
(* over the whole payload under the signing secret.                         *)

bcryptHash(password, salt) == [alg |-> "bcrypt", salt |-> salt, pw |-> password]

bcryptCompare(password, hash) == bcryptHash(password, hash.salt) = hash

JWT_SECRET == "fallback_secret"
OtherSecret == "attacker_secret"

Mac(secret, userId, iat, exp) == <<secret, userId, iat, exp>>

\* jwt.sign({ userId }, secret, { expiresIn: '30d' })
jwtSign(userId, t) ==
    [userId |-> userId, iat |-> t, exp |-> t + TokenTTL,
     sig |-> Mac(JWT_SECRET, userId, t, t + TokenTTL)]

SignatureValid(tok) == tok.sig = Mac(JWT_SECRET, tok.userId, tok.iat, tok.exp)

TokenExpired(tok, t) == t >= tok.exp

\* A verification that checks the signature only
jwtVerify_SignatureOnly(tok, t) == SignatureValid(tok)

\* jwt.verify: the signature first, then the expiry
jwtVerify(tok, t) == SignatureValid(tok) /\ ~TokenExpired(tok, t)

----------------------------------------------------------------------------
(* The User collection *)

\* new User({...}) with the schema's defaults and setters (trim, lowercase)
NewUser(username, email, passwordHash, t) ==
    [username |-> trim(username),
     email |-> trim(toLowerCase(email)),
     password |-> passwordHash,
     tier |-> "FREE",
     isAdmin |-> FALSE,
     bio |-> Empty,
     tradingExperience |-> "Beginner",
     isPublic |-> TRUE,
     subscriptionId |-> Null,
     subscriptionStatus |-> Null,
     subscriptionEndDate |-> NoDate,
     lastActive |-> t,
     lastLogin |-> t,
     loginCount |-> 1,
     updatedAt |-> t]

\* The schema's validators on username and email: required, minlength,
\* maxlength (the password field always holds a 60-character bcrypt hash)
ValidUserDoc(doc) ==
    /\ doc.username # Empty
    /\ Len(doc.username) >= MinUsernameLen
    /\ Len(doc.username) <= MaxUsernameLen
    /\ doc.email # Empty

\* The unique indexes on username and on email
UniqueInStore(store, doc) ==
    \A i \in DOMAIN store :
        store[i].username # doc.username /\ store[i].email # doc.email

\* createDefaultUsers: the admin and the test account
AdminUser ==
    [NewUser(S_admin, E_admin, bcryptHash(P_admin123, "s0"), 0)
        EXCEPT !.tier = "ADMIN", !.isAdmin = TRUE, !.loginCount = 0]

TestUser ==
    [NewUser(S_testuser, E_test, bcryptHash(P_test123, "s0"), 0)
        EXCEPT !.loginCount = 0]

\* userSchema.pre('save') and pre('findOneAndUpdate'): every write stamps updatedAt
Stamp(doc, t) == [doc EXCEPT !.updatedAt = t]

\* The last exchange: the request (its route and inputs) and the response
\* (status, error code, the account it concerns, the token and detail it carries)
Response(op, req, status, code, uid, token, detail) ==
    [op |-> op, req |-> req, status |-> status, code |-> code, uid |-> uid,
     token |-> token, detail |-> detail]

\* What the client may hold after a response: the token it held, or the one
\* the response carries
Keep(old, tok) == IF tok = NoToken THEN {old} ELSE {old, tok}

\* Successful logins so far, over all accounts (loginCount starts at 0 for
\* the default accounts and at 1 for a registered one)
RECURSIVE SumLoginCount(_)
SumLoginCount(store) ==
    IF store = <<>> THEN 0
    ELSE store[1].loginCount + SumLoginCount(Tail(store))

LoginsSoFar(store) == SumLoginCount(store) - (Len(store) - 2)

----------------------------------------------------------------------------
(* POST /api/auth/register *)

\* A lookup that compares the email as given, without lower-casing it
RegisterMatches_CaseSensitive(store, username, email) ==
    {i \in DOMAIN store : store[i].email = email \/ store[i].username = username}

\* User.findOne({ $or: [{ email: email.toLowerCase() }, { username }] }):
\* the documents the query matches; findOne returns any one of them
RegisterMatches(store, username, email) ==
    LET lowered == toLowerCase(email)
    IN  {i \in DOMAIN store : store[i].email = lowered \/ store[i].username = username}

\* The outcomes of one register request: the store afterwards and the response
RegisterOutcomes(store, username, email, password, salt, t) ==
    IF username = Empty \/ email = Empty \/ password = Empty
    THEN {[users |-> store,
           resp |-> Response("register", <<username, email, password>>, 400, "MISSING_FIELDS", 0, NoToken, "")]}
    ELSE IF Len(password) < MinPasswordLen
    THEN {[users |-> store,
           resp |-> Response("register", <<username, email, password>>, 400, "PASSWORD_TOO_SHORT", 0, NoToken, "")]}
    ELSE IF RegisterMatches(store, username, email) # {}
    THEN {[users |-> store,
           resp |-> Response("register", <<username, email, password>>, 400, "USER_EXISTS", 0, NoToken,
                        IF store[i].email = toLowerCase(email)
                        THEN "email" ELSE "username")] :
            i \in RegisterMatches(store, username, email)}
    ELSE LET doc == NewUser(username, email, bcryptHash(password, salt), t)
             id == Len(store) + 1
         IN  IF ValidUserDoc(doc) /\ UniqueInStore(store, doc)
             THEN {[users |-> Append(store, doc),
                    resp |-> Response("register", <<username, email, password>>, 201, "OK", id, jwtSign(id, t), "")]}
             ELSE {[users |-> store,
                    resp |-> Response("register", <<username, email, password>>, 500, "SERVER_ERROR", 0, NoToken, "")]}

Register(username, email, password, salt) ==
    \E o \in RegisterOutcomes(users, username, email, password, salt, now) :
        /\ users' = o.users
        /\ resp' = o.resp
        /\ held' \in Keep(held, o.resp.token)
        /\ UNCHANGED now

----------------------------------------------------------------------------
(* POST /api/auth/login *)

\* User.findOne({ $or: [{ username: username.trim() },
\*                       { email: username.toLowerCase().trim() }] })
LoginMatches(store, identifier) ==
    LET asUsername == trim(identifier)
        asEmail == trim(toLowerCase(identifier))
    IN  {i \in DOMAIN store :
            store[i].username = asUsername \/ store[i].email = asEmail}

\* if (!user): the response when the lookup finds nobody
LoginNoUser_NotFound(req) ==
    Response("login", req, 404, "USER_NOT_FOUND", 0, NoToken, "")

LoginNoUser(req) ==
    Response("login", req, 400, "INVALID_CREDENTIALS", 0, NoToken, "")

\* if (!isValidPassword): the response when bcrypt.compare fails
LoginBadPassword(req) ==
    Response("login", req, 400, "INVALID_CREDENTIALS", 0, NoToken, "")

\* The outcomes of one login request: the store afterwards and the response
LoginOutcomes(store, identifier, password, t) ==
    IF identifier = Empty \/ password = Empty
    THEN {[users |-> store,
           resp |-> Response("login", <<identifier, password>>, 400, "MISSING_CREDENTIALS", 0, NoToken, "")]}
    ELSE IF LoginMatches(store, identifier) = {}
    THEN {[users |-> store, resp |-> LoginNoUser(<<identifier, password>>)]}
    ELSE {IF ~bcryptCompare(password, store[i].password)
          THEN [users |-> store, resp |-> LoginBadPassword(<<identifier, password>>)]
          ELSE [users |-> [store EXCEPT ![i] =
                              Stamp([@ EXCEPT !.lastLogin = t,
                                              !.loginCount = @ + 1], t)],
                resp |-> Response("login", <<identifier, password>>, 200, "OK", i, jwtSign(i, t), "")] :
            i \in LoginMatches(store, identifier)}

Login(identifier, password) ==
    \E o \in LoginOutcomes(users, identifier, password, now) :
        /\ o.resp.token # NoToken => LoginsSoFar(users) < MaxLogins
        /\ users' = o.users
        /\ resp' = o.resp
        /\ held' \in Keep(held, o.resp.token)
        /\ UNCHANGED now

----------------------------------------------------------------------------
(* authenticateToken *)

\* What a client can put in the Authorization header: nothing, the token it
\* holds, that token with its expiry pushed back (signature kept), or the
\* same payload signed with a secret of the client's own
Presentable(tok) ==
    IF tok = NoToken THEN {NoToken}
    ELSE {NoToken,
          tok,
          [tok EXCEPT !.exp = @ + TokenTTL],
          [tok EXCEPT !.sig = Mac(OtherSecret, tok.userId, tok.iat, tok.exp)]}

\* The middleware's result: whether next() is called, the response it sends
\* otherwise, the account it loaded (req.user) and the store afterwards
AuthResult(passed, status, code, uid, store) ==
    [passed |-> passed, status |-> status, code |-> code, uid |-> uid, users |-> store]

\* An authentication that also rejects a token issued before the account's
\* last login
authenticateToken_RevokedByLogin(store, tok, t) ==
    IF tok = NoToken
    THEN AuthResult(FALSE, 401, "NO_TOKEN", 0, store)
    ELSE IF ~jwtVerify(tok, t)
    THEN AuthResult(FALSE, 403, "INVALID_TOKEN", 0, store)
    ELSE IF tok.userId \notin DOMAIN store
    THEN AuthResult(FALSE, 404, "USER_NOT_FOUND", 0, store)
    ELSE IF tok.iat < store[tok.userId].lastLogin
    THEN AuthResult(FALSE, 403, "INVALID_TOKEN", 0, store)
    ELSE AuthResult(TRUE, 200, "OK", tok.userId,
             [store EXCEPT ![tok.userId] = Stamp([@ EXCEPT !.lastActive = t], t)])

authenticateToken(store, tok, t) ==
    IF tok = NoToken
    THEN AuthResult(FALSE, 401, "NO_TOKEN", 0, store)
    ELSE IF ~jwtVerify(tok, t)
    THEN AuthResult(FALSE, 403, "INVALID_TOKEN", 0, store)
    ELSE IF tok.userId \notin DOMAIN store
    THEN AuthResult(FALSE, 404, "USER_NOT_FOUND", 0, store)
    ELSE AuthResult(TRUE, 200, "OK", tok.userId,
             [store EXCEPT ![tok.userId] = Stamp([@ EXCEPT !.lastActive = t], t)])

\* GET /api/auth/profile
GetProfile(tok) ==
    LET a == authenticateToken(users, tok, now)
    IN  /\ users' = a.users
        /\ resp' = Response("profile", tok, a.status, a.code, a.uid, NoToken, "")
        /\ UNCHANGED <<now, held>>

\* POST /api/auth/refresh
Refresh(tok) ==
    LET a == authenticateToken(users, tok, now)
        issued == IF a.passed THEN jwtSign(a.uid, now) ELSE NoToken
    IN  /\ users' = a.users
        /\ resp' = Response("refresh", tok, a.status, a.code, a.uid, issued, "")
        /\ held' \in Keep(held, issued)
        /\ UNCHANGED now

\* PUT /api/users/profile (authenticateToken).  Of the profile fields the
\* account record here keeps bio, tradingExperience and isPublic.
AllowedFields ==
    {"bio", "tradingExperience", "favoriteMarkets", "socialLinks", "tradingStats", "isPublic"}

ExperienceLevels == {"Beginner", "Intermediate", "Advanced", "Expert"}

\* An update that also copies the role and the tier from the body
ProfileUpdate_Everything(body) == body

\* profileUpdate: the allowed fields the body has
ProfileUpdate(body) == [f \in DOMAIN body \cap AllowedFields |-> body[f]]

\* profileUpdate.bio && profileUpdate.bio.length > 500
BioTooLong(update) ==
    /\ "bio" \in DOMAIN update
    /\ update.bio # Empty
    /\ Len(update.bio) > MaxBioLen

\* profileUpdate.tradingExperience && ![...].includes(profileUpdate.tradingExperience)
BadExperience(update) ==
    /\ "tradingExperience" \in DOMAIN update
    /\ update.tradingExperience # ""
    /\ update.tradingExperience \notin ExperienceLevels

\* runValidators: the schema's maxlength on bio and enum on tradingExperience
SchemaAccepts(update) ==
    /\ "bio" \in DOMAIN update => Len(trim(update.bio)) <= MaxBioLen
    /\ "tradingExperience" \in DOMAIN update => update.tradingExperience \in ExperienceLevels

\* $set of the update on a document, with the schema's trim on bio
SetFields(doc, update) ==
    [f \in DOMAIN doc |->
        IF f \notin DOMAIN update THEN doc[f]
        ELSE IF f = "bio" THEN trim(update[f])
        ELSE update[f]]

UpdateProfile(tok, body) ==
    LET a == authenticateToken(users, tok, now)
        req == <<tok, body>>
        profileUpdate == ProfileUpdate(body)
    IN  /\ IF ~a.passed
           THEN /\ users' = a.users
                /\ resp' = Response("updateProfile", req, a.status, a.code, a.uid, NoToken, "")
           ELSE IF BioTooLong(profileUpdate)
           THEN /\ users' = a.users
                /\ resp' = Response("updateProfile", req, 400,
                                    "Bio must be 500 characters or less", a.uid, NoToken, "")
           ELSE IF BadExperience(profileUpdate)
           THEN /\ users' = a.users
                /\ resp' = Response("updateProfile", req, 400,
                                    "Invalid trading experience level", a.uid, NoToken, "")
           ELSE IF ~SchemaAccepts(profileUpdate)
           THEN /\ users' = a.users
                /\ resp' = Response("updateProfile", req, 500,
                                    "Failed to update profile", a.uid, NoToken, "")
           ELSE /\ users' = [a.users EXCEPT ![a.uid] = Stamp(SetFields(@, profileUpdate), now)]
                /\ resp' = Response("updateProfile", req, 200, "OK", a.uid, NoToken, "")
        /\ UNCHANGED <<now, held>>

----------------------------------------------------------------------------
(* checkSubscription and requireAdmin *)

RequiredTiers == {"FREE", "WEEKLY", "MONTHLY"}

\* The middleware's result: whether next() is called, the response it sends
\* otherwise, and the account document afterwards (saved when it changed)
SubResult(passed, status, code, doc) ==
    [passed |-> passed, status |-> status, code |-> code, user |-> doc]

\* A check without the admin bypass
checkSubscription_NoAdminBypass(user, requiredTier, t) ==
    IF user.tier = "FREE" /\ requiredTier # "FREE"
    THEN SubResult(FALSE, 402, "SUBSCRIPTION_REQUIRED", user)
    ELSE IF IsSet(user.subscriptionEndDate) /\ Before(user.subscriptionEndDate, t)
    THEN SubResult(FALSE, 402, "SUBSCRIPTION_EXPIRED",
                   Stamp([user EXCEPT !.tier = "FREE"], t))
    ELSE SubResult(TRUE, 200, "OK", user)

\* A check that denies on expiry without saving the downgrade
checkSubscription_NoSave(user, requiredTier, t) ==
    IF user.isAdmin
    THEN SubResult(TRUE, 200, "OK", user)
    ELSE IF user.tier = "FREE" /\ requiredTier # "FREE"
    THEN SubResult(FALSE, 402, "SUBSCRIPTION_REQUIRED", user)
    ELSE IF IsSet(user.subscriptionEndDate) /\ Before(user.subscriptionEndDate, t)
    THEN SubResult(FALSE, 402, "SUBSCRIPTION_EXPIRED", user)
    ELSE SubResult(TRUE, 200, "OK", user)

\* A check that tests the expiry before the FREE tier
checkSubscription_ExpiryFirst(user, requiredTier, t) ==
    IF user.isAdmin
    THEN SubResult(TRUE, 200, "OK", user)
    ELSE IF IsSet(user.subscriptionEndDate) /\ Before(user.subscriptionEndDate, t)
    THEN SubResult(FALSE, 402, "SUBSCRIPTION_EXPIRED",
                   Stamp([user EXCEPT !.tier = "FREE"], t))
    ELSE IF user.tier = "FREE" /\ requiredTier # "FREE"
    THEN SubResult(FALSE, 402, "SUBSCRIPTION_REQUIRED", user)
    ELSE SubResult(TRUE, 200, "OK", user)

\* A check that also marks the subscription expired when it downgrades
checkSubscription_MarksExpired(user, requiredTier, t) ==
    IF user.isAdmin
    THEN SubResult(TRUE, 200, "OK", user)
    ELSE IF user.tier = "FREE" /\ requiredTier # "FREE"
    THEN SubResult(FALSE, 402, "SUBSCRIPTION_REQUIRED", user)
    ELSE IF IsSet(user.subscriptionEndDate) /\ Before(user.subscriptionEndDate, t)
    THEN SubResult(FALSE, 402, "SUBSCRIPTION_EXPIRED",
                   Stamp([user EXCEPT !.tier = "FREE",
                                      !.subscriptionStatus = "expired"], t))
    ELSE SubResult(TRUE, 200, "OK", user)

checkSubscription(user, requiredTier, t) ==
    IF user.isAdmin
    THEN SubResult(TRUE, 200, "OK", user)
    ELSE IF user.tier = "FREE" /\ requiredTier # "FREE"
    THEN SubResult(FALSE, 402, "SUBSCRIPTION_REQUIRED", user)
    ELSE IF IsSet(user.subscriptionEndDate) /\ Before(user.subscriptionEndDate, t)
    THEN SubResult(FALSE, 402, "SUBSCRIPTION_EXPIRED",
                   Stamp([user EXCEPT !.tier = "FREE"], t))
    ELSE SubResult(TRUE, 200, "OK", user)

requireAdmin(user) == user.isAdmin

\* A route behind authenticateToken and checkSubscription(requiredTier), as
\* GET /api/market/data is with 'WEEKLY'.  The two middlewares read the clock
\* separately; elapsed is the time that passes between the two reads.
GatedRequest(tok, requiredTier, elapsed) ==
    LET a == authenticateToken(users, tok, now)
        c == checkSubscription(a.users[a.uid], requiredTier, now + elapsed)
    IN  /\ now + elapsed <= MaxTime
        /\ elapsed > 0 => a.passed
        /\ IF ~a.passed
           THEN /\ users' = a.users
                /\ resp' = Response("gated", <<tok, requiredTier>>, a.status, a.code, a.uid, NoToken, "")
           ELSE /\ users' = [a.users EXCEPT ![a.uid] = c.user]
                /\ resp' = Response("gated", <<tok, requiredTier>>, c.status, c.code,
                                    a.uid, NoToken, "")
        /\ now' = now + elapsed
        /\ UNCHANGED held

\* GET /api/users/stats: authenticateToken, requireAdmin
AdminRequest(tok) ==
    LET a == authenticateToken(users, tok, now)
    IN  /\ users' = a.users
        /\ resp' = IF ~a.passed
                   THEN Response("admin", tok, a.status, a.code, a.uid, NoToken, "")
                   ELSE IF ~requireAdmin(a.users[a.uid])
                   THEN Response("admin", tok, 403, "ADMIN_REQUIRED", a.uid, NoToken, "")
                   ELSE Response("admin", tok, 200, "OK", a.uid, NoToken, "")
        /\ UNCHANGED <<now, held>>

----------------------------------------------------------------------------
(* POST /api/webhooks/stripe *)

SubscriptionIds == {"sub_1"}
PaidTiers == {"WEEKLY", "MONTHLY"}

\* current_period_end of a subscription (re)started at t: one tick ahead for
\* the weekly price, two for the monthly one
PeriodEnd(tier, t) == IF tier = "WEEKLY" THEN DateAt(t + 1) ELSE DateAt(t + 2)

\* Model.findByIdAndUpdate / findOneAndUpdate: the update applied to one
\* document, with the pre('findOneAndUpdate') stamp
UpdateOne(store, i, fields, t) ==
    [store EXCEPT ![i] =
        Stamp([f \in DOMAIN @ |-> IF f \in DOMAIN fields THEN fields[f] ELSE @[f]], t)]

HoldersOf(store, subId) == {i \in DOMAIN store : store[i].subscriptionId = subId}

\* The stores one webhook event can leave behind
WebhookOutcomes(store, type, userId, subId, status, tier, t) ==
    CASE type = "checkout.session.completed" ->
            IF userId \in DOMAIN store
            THEN {UpdateOne(store, userId,
                      [subscriptionId |-> subId, subscriptionStatus |-> status,
                       tier |-> tier, subscriptionEndDate |-> PeriodEnd(tier, t)], t)}
            ELSE {store}
      [] type = "customer.subscription.deleted" ->
            IF HoldersOf(store, subId) = {} THEN {store}
            ELSE {UpdateOne(store, i,
                      [tier |-> "FREE", subscriptionStatus |-> "canceled",
                       subscriptionEndDate |-> NoDate], t) : i \in HoldersOf(store, subId)}
      [] type = "customer.subscription.updated" ->
            IF HoldersOf(store, subId) = {} THEN {store}
            ELSE {UpdateOne(store, i,
                      [subscriptionStatus |-> status, tier |-> tier,
                       subscriptionEndDate |-> PeriodEnd(tier, t)], t) :
                    i \in HoldersOf(store, subId)}
      [] OTHER -> {store}

\* An event whose signature stripe.webhooks.constructEvent rejects
WebhookBadSignature ==
    /\ resp' = Response("webhook", <<>>, 400, "WEBHOOK_ERROR", 0, NoToken, "")
    /\ UNCHANGED <<users, now, held>>

\* Stripe issues a subscription to one customer: a checkout event names an
\* account that holds the subscription already or a subscription nobody holds
StripeWebhook(type, userId, subId, status, tier) ==
    /\ type = "checkout.session.completed" => HoldersOf(users, subId) \subseteq {userId}
    /\ \E store \in WebhookOutcomes(users, type, userId, subId, status, tier, now) :
          users' = store
    /\ resp' = Response("webhook", <<type, userId, subId, status, tier>>, 200, "received", 0, NoToken, type)
    /\ UNCHANGED <<now, held>>

----------------------------------------------------------------------------
(* Time *)

Tick ==
    /\ now < MaxTime
    /\ now' = now + 1
    /\ UNCHANGED <<users, held, resp>>

----------------------------------------------------------------------------

Init ==
    /\ users = <<AdminUser, TestUser>>
    /\ now = 0
    /\ held = NoToken
    /\ resp = Response("none", <<>>, 0, "", 0, NoToken, "")
    /\ inflight = <<>>
    /\ alerts = <<>>
    /\ emitted = <<>>

Next ==
    \/ \E r \in RegisterRequests, s \in Salts : Register(r[1], r[2], r[3], s) /\ Quiet
    \/ \E l \in LoginRequests : Login(l[1], l[2]) /\ Quiet
    \/ \E tok \in Presentable(held) : GetProfile(tok) /\ Quiet
    \/ Tick /\ Quiet

Spec == Init /\ [][Next]_vars

\* The entitlement flow: the default accounts log in, Stripe reports
\* subscriptions, and gated and admin routes are requested
SubLoginRequests == {<<S_admin, P_admin123>>, <<S_testuser, P_test123>>}
WebhookTypes ==
    {"checkout.session.completed", "customer.subscription.deleted",
     "customer.subscription.updated"}

NextSub ==
    \/ \E l \in SubLoginRequests : Login(l[1], l[2]) /\ Quiet
    \/ \E tok \in Presentable(held), rt \in RequiredTiers, d \in {0, 1} :
          GatedRequest(tok, rt, d) /\ Quiet
    \/ \E tok \in Presentable(held) : AdminRequest(tok) /\ Quiet
    \/ \E ty \in WebhookTypes, u \in DOMAIN users, sid \in SubscriptionIds,
          st \in {"active"}, tr \in PaidTiers : StripeWebhook(ty, u, sid, st, tr) /\ Quiet
    \/ WebhookBadSignature /\ Quiet
    \/ Tick /\ Quiet

SpecSub == Init /\ [][NextSub]_vars

\* The life of a token: accounts register and log in, tokens are refreshed
\* and presented, profiles are updated, subscriptions come and lapse
TokenLoginRequests == {<<S_testuser, P_test123>>, <<S_bob, P_secret1>>}

NextToken ==
    \/ \E r \in {<<S_bob, E_bob, P_secret1>>}, s \in Salts :
          Register(r[1], r[2], r[3], s) /\ Quiet
    \/ \E l \in TokenLoginRequests : Login(l[1], l[2]) /\ Quiet
    \/ \E tok \in {held} : Refresh(tok) /\ Quiet
    \/ \E tok \in Presentable(held) : GetProfile(tok) /\ Quiet
    \/ \E tok \in {held},
          body \in {[tradingExperience |-> "Beginner"], [tradingExperience |-> "Guru"]} :
          UpdateProfile(tok, body) /\ Quiet
    \/ \E tok \in {held} : GatedRequest(tok, "WEEKLY", 0) /\ Quiet
    \/ \E ty \in WebhookTypes, u \in {held.userId} \cap DOMAIN users :
          StripeWebhook(ty, u, "sub_1", "active", "WEEKLY") /\ Quiet
    \/ Tick /\ Quiet

SpecToken == Init /\ [][NextToken]_vars

\* Profile updates: the test account logs in and sends bodies
\* with allowed fields, with values the checks reject, and with fields that
\* are not the profile's
LongBio == [n \in 1..(MaxBioLen + 1) |-> "x"]

ProfileBodies ==
    {[bio |-> S_bob],
     [bio |-> S_ab, isPublic |-> FALSE],
     [bio |-> LongBio],
     [tradingExperience |-> "Expert"],
     [tradingExperience |-> "Guru"],
     [tradingExperience |-> ""],
     [bio |-> S_long, tier |-> "MONTHLY", isAdmin |-> TRUE, username |-> S_admin,
      email |-> E_admin, password |-> bcryptHash(P_secret1, "s1"),
      subscriptionEndDate |-> DateAt(MaxTime + 1), loginCount |-> 0]}

NextProfile ==
    \/ \E l \in {<<S_testuser, P_test123>>} : Login(l[1], l[2]) /\ Quiet
    \/ \E tok \in {NoToken, held}, body \in ProfileBodies :
          UpdateProfile(tok, body) /\ Quiet
    \/ Tick /\ Quiet

SpecProfile == Init /\ [][NextProfile]_vars

----------------------------------------------------------------------------
(* src/backend_server.js: the variant whose token carries the role.  Its     *)
(* authenticateToken does not load the account: req.user is the token's      *)
(* payload.  In this specification one clock tick is seven days.             *)

BackendTokenTTL == 1      \* expiresIn: '7d'

E_adminPro == <<"a","d","m","i","n","@","c","a","s","h","f","l","o","w","o","p","s",".","p","r","o">>

\* new User({ username, email, password }) with the schema's defaults
BackendNewUser(username, email, passwordHash, t) ==
    [username |-> username,
     email |-> email,
     password |-> passwordHash,
     tier |-> "SILVER",
     isAdmin |-> FALSE,
     lastLogin |-> t]

\* createDefaultAdmin
BackendAdmin ==
    [BackendNewUser(S_admin, E_adminPro, bcryptHash(P_admin123, "s0"), 0)
        EXCEPT !.tier = "ADMIN", !.isAdmin = TRUE]

\* jwt.sign({ userId, username, isAdmin }, secret, { expiresIn: '7d' })
BackendSign(userId, username, isAdmin, t) ==
    [userId |-> userId, username |-> username, isAdmin |-> isAdmin,
     iat |-> t, exp |-> t + BackendTokenTTL,
     sig |-> <<JWT_SECRET, userId, username, isAdmin, t, t + BackendTokenTTL>>]

BackendVerify(tok, t) ==
    /\ tok.sig = <<JWT_SECRET, tok.userId, tok.username, tok.isAdmin, tok.iat, tok.exp>>
    /\ ~TokenExpired(tok, t)

\* authenticateToken: the status it answers with, or 0 when it calls next()
\* with req.user = the decoded payload
BackendAuthenticate(tok, t) ==
    IF tok = NoToken THEN 401
    ELSE IF ~BackendVerify(tok, t) THEN 403
    ELSE 0

\* requireAdmin, on req.user
BackendRequireAdmin(reqUser) == reqUser.isAdmin

BackendRegisterRequests ==
    {<<Empty, E_bob, P_secret1>>,
     <<S_bob, E_bob, P_secret1>>,
     <<S_admin, E_bob, P_secret1>>,
     <<S_testuser, E_bobMixed, P_secret1>>}

BackendLoginRequests ==
    {<<Empty, P_secret1>>,
     <<S_ab, P_secret1>>,
     <<S_admin, P_admin123>>,
     <<S_admin, P_secret1>>,
     <<S_bob, P_secret1>>}

\* POST /api/auth/register
BackendRegister(username, email, password, salt) ==
    LET req == <<username, email, password>>
        id == Len(users) + 1
    IN  /\ IF username = Empty \/ email = Empty \/ password = Empty
           THEN /\ resp' = Response("register", req, 400, "All fields are required", 0, NoToken, "")
                /\ UNCHANGED <<users, held>>
           ELSE IF \E i \in DOMAIN users :
                      users[i].email = email \/ users[i].username = username
           THEN /\ resp' = Response("register", req, 400, "User already exists", 0, NoToken, "")
                /\ UNCHANGED <<users, held>>
           ELSE /\ users' = Append(users,
                        BackendNewUser(username, email, bcryptHash(password, salt), now))
                /\ resp' = Response("register", req, 201, "User created successfully", id,
                                    BackendSign(id, username, FALSE, now), "")
                /\ held' \in Keep(held, resp'.token)
        /\ UNCHANGED now

\* POST /api/auth/login
BackendLogin(identifier, password) ==
    LET req == <<identifier, password>>
        found == {i \in DOMAIN users :
                     users[i].username = identifier \/ users[i].email = identifier}
    IN  /\ IF identifier = Empty \/ password = Empty
           THEN /\ resp' = Response("login", req, 400, "Username and password are required", 0, NoToken, "")
                /\ UNCHANGED <<users, held>>
           ELSE IF found = {}
           THEN /\ resp' = Response("login", req, 400, "Invalid credentials", 0, NoToken, "")
                /\ UNCHANGED <<users, held>>
           ELSE \E i \in found :
                   IF ~bcryptCompare(password, users[i].password)
                   THEN /\ resp' = Response("login", req, 400, "Invalid credentials", 0, NoToken, "")
                        /\ UNCHANGED <<users, held>>
                   ELSE /\ users' = [users EXCEPT ![i].lastLogin = now]
                        /\ resp' = Response("login", req, 200, "Login successful", i,
                                       BackendSign(i, users[i].username, users[i].isAdmin, now), "")
                        /\ held' \in Keep(held, resp'.token)
        /\ UNCHANGED now

\* DELETE /api/alerts/:id (authenticateToken, requireAdmin) for an id that no
\* alert has: findByIdAndDelete finds nothing
BackendDeleteAlert(tok) ==
    /\ resp' = IF BackendAuthenticate(tok, now) # 0
               THEN Response("deleteAlert", tok, BackendAuthenticate(tok, now),
                             "Invalid token", 0, NoToken, "")
               ELSE IF ~BackendRequireAdmin(tok)
               THEN Response("deleteAlert", tok, 403, "Admin access required",
                             tok.userId, NoToken, "")
               ELSE Response("deleteAlert", tok, 404, "Alert not found",
                             tok.userId, NoToken, "")
    /\ UNCHANGED <<users, now, held>>

\* The stored role of an account changes.  No route of this variant writes
\* isAdmin; the change is made in the database the server reads.
StoreRoleChange(i, isAdmin) ==
    /\ users[i].isAdmin # isAdmin
    /\ users' = [users EXCEPT ![i].isAdmin = isAdmin]
    /\ UNCHANGED <<now, held, resp>>

InitBackend ==
    /\ users = <<BackendAdmin>>
    /\ now = 0
    /\ held = NoToken
    /\ resp = Response("none", <<>>, 0, "", 0, NoToken, "")
    /\ inflight = <<>>
    /\ alerts = <<>>
    /\ emitted = <<>>

NextBackend ==
    \/ \E r \in BackendRegisterRequests, s \in Salts :
          BackendRegister(r[1], r[2], r[3], s) /\ Quiet
    \/ \E l \in BackendLoginRequests : BackendLogin(l[1], l[2]) /\ Quiet
    \/ \E tok \in {NoToken, held} : BackendDeleteAlert(tok) /\ Quiet
    \/ \E i \in DOMAIN users, b \in BOOLEAN : StoreRoleChange(i, b) /\ Quiet
    \/ Tick /\ Quiet

SpecBackend == InitBackend /\ [][NextBackend]_vars

----------------------------------------------------------------------------
(* Concurrent gated requests of one account (src/server.js).  Each request   *)
(* runs authenticateToken and checkSubscription; between two awaits of one   *)
(* request the steps of the others may run.  The awaits are User.findById,   *)
(* the lastActive save, and the save of the downgrade.                       *)

NumRequests == 2      \* concurrent requests explored

Requests == 1..NumRequests

\* The paths of a document that were assigned a new value since it was
\* loaded or last saved
Modified(doc, clean) == {f \in DOMAIN doc : doc[f] # clean[f]}

\* document.save(): Mongoose writes the modified paths ($set), with the
\* pre('save') stamp, and leaves the other paths of the stored document alone
SaveModified(store, i, doc, clean, t) ==
    [store EXCEPT ![i] =
        Stamp([f \in DOMAIN @ |-> IF f \in Modified(doc, clean) THEN doc[f] ELSE @[f]], t)]

\* A request ends: the response goes out
Answer(r, rt, status, code) ==
    /\ inflight' = [inflight EXCEPT ![r] = [pc |-> "done", rt |-> rt,
                                            status |-> status, code |-> code]]
    /\ resp' = Response("gated", <<held, rt>>, status, code, held.userId, NoToken, "")

\* authenticateToken up to its first await: jwt.verify, then User.findById
AuthLoad(r, rt) ==
    /\ inflight[r].pc = "idle"
    /\ IF ~jwtVerify(held, now)
       THEN Answer(r, rt, 403, "INVALID_TOKEN")
       ELSE IF held.userId \notin DOMAIN users
       THEN Answer(r, rt, 404, "USER_NOT_FOUND")
       ELSE /\ inflight' = [inflight EXCEPT ![r] =
                               [pc |-> "loaded", rt |-> rt,
                                user |-> users[held.userId],
                                clean |-> users[held.userId]]]
            /\ UNCHANGED resp
    /\ UNCHANGED <<users, now, held, alerts, emitted>>

\* user.lastActive = new Date(); await user.save(); req.user = user
AuthSave(r) ==
    /\ inflight[r].pc = "loaded"
    /\ LET user == [inflight[r].user EXCEPT !.lastActive = now]
       IN  /\ users' = SaveModified(users, held.userId, user, inflight[r].clean, now)
           /\ inflight' = [inflight EXCEPT ![r].pc = "authenticated",
                                           ![r].user = Stamp(user, now),
                                           ![r].clean = Stamp(user, now)]
    /\ UNCHANGED <<now, held, resp, alerts, emitted>>

\* checkSubscription up to its await: the tests on req.user and, in the
\* expiry branch, the assignment user.tier = 'FREE'
SubCheck(r) ==
    /\ inflight[r].pc = "authenticated"
    /\ LET c == checkSubscription(inflight[r].user, inflight[r].rt, now)
       IN  IF c.code = "SUBSCRIPTION_EXPIRED"
           THEN /\ inflight' = [inflight EXCEPT ![r].pc = "expired",
                                                ![r].user.tier = c.user.tier]
                /\ UNCHANGED resp
           ELSE Answer(r, inflight[r].rt, c.status, c.code)
    /\ UNCHANGED <<users, now, held, alerts, emitted>>

\* await user.save() in the expiry branch, then the 402 response
SubSave(r) ==
    /\ inflight[r].pc = "expired"
    /\ users' = SaveModified(users, held.userId, inflight[r].user, inflight[r].clean, now)
    /\ Answer(r, inflight[r].rt, 402, "SUBSCRIPTION_EXPIRED")
    /\ UNCHANGED <<now, held, alerts, emitted>>

\* Time passes while the requests are in flight, up to one tick past MaxTime
RaceTick ==
    /\ now < MaxTime + 1
    /\ now' = now + 1
    /\ UNCHANGED <<users, held, resp, inflight, alerts, emitted>>

\* The account was subscribed by a checkout event at time 0, its owner
\* logged in later, and the subscription's end date has passed; the requests
\* have not arrived yet
InitRace ==
    /\ \E tier \in PaidTiers, loginAt \in 0..MaxTime :
         \E store \in WebhookOutcomes(<<AdminUser, TestUser>>, "checkout.session.completed",
                                      2, "sub_1", "active", tier, 0) :
           \E o \in LoginOutcomes(store, S_testuser, P_test123, loginAt) :
              /\ o.resp.token # NoToken
              /\ users = o.users
              /\ held = o.resp.token
    /\ now \in 0..MaxTime
    /\ jwtVerify(held, now)
    /\ IsSet(users[held.userId].subscriptionEndDate)
    /\ Before(users[held.userId].subscriptionEndDate, now)
    /\ resp = Response("none", <<>>, 0, "", 0, NoToken, "")
    /\ inflight = [r \in Requests |-> [pc |-> "idle"]]
    /\ alerts = <<>>
    /\ emitted = <<>>

NextRace ==
    \/ \E r \in Requests, rt \in RequiredTiers : AuthLoad(r, rt)
    \/ \E r \in Requests : AuthSave(r)
    \/ \E r \in Requests : SubCheck(r)
    \/ \E r \in Requests : SubSave(r)
    \/ RaceTick

SpecRace == InitRace /\ [][NextRace]_vars

\* The same requests while Stripe reports a renewal of the account's
\* subscription: findByIdAndUpdate / findOneAndUpdate is one atomic write,
\* which may fall between any two steps of a request
RenewalTypes == {"checkout.session.completed", "customer.subscription.updated"}

NextRenew ==
    \/ \E r \in Requests : AuthLoad(r, "WEEKLY")
    \/ \E r \in Requests : AuthSave(r)
    \/ \E r \in Requests : SubCheck(r)
    \/ \E r \in Requests : SubSave(r)
    \/ \E ty \in RenewalTypes, tr \in PaidTiers :
          StripeWebhook(ty, held.userId, "sub_1", "active", tr) /\ Quiet
    \/ RaceTick

SpecRenew == InitRace /\ [][NextRenew]_vars

\* Concurrent logins.  The handler awaits User.findOne, bcrypt.compare and
\* user.save(); handlers of other requests run at each await.

\* A login ends: the response goes out
LoginAnswer(r, req, status, code, uid, token) ==
    /\ inflight' = [inflight EXCEPT ![r] = [pc |-> "done", login |-> req,
                                            status |-> status, code |-> code]]
    /\ resp' = Response("login", req, status, code, uid, token, "")

\* POST /api/auth/login up to await bcrypt.compare: the field check and
\* User.findOne
LoginFind(r, identifier, password) ==
    LET req == <<identifier, password>>
    IN  /\ inflight[r].pc = "idle"
        /\ IF identifier = Empty \/ password = Empty
           THEN LoginAnswer(r, req, 400, "MISSING_CREDENTIALS", 0, NoToken)
           ELSE IF LoginMatches(users, identifier) = {}
           THEN LoginAnswer(r, req, 400, "INVALID_CREDENTIALS", 0, NoToken)
           ELSE /\ \E i \in LoginMatches(users, identifier) :
                     inflight' = [inflight EXCEPT ![r] =
                                     [pc |-> "comparing", login |-> req, id |-> i,
                                      user |-> users[i], clean |-> users[i]]]
                /\ UNCHANGED resp
        /\ UNCHANGED <<users, now, held, alerts, emitted>>

\* The rest of the handler: the password test, user.lastLogin = new Date(),
\* user.loginCount += 1, await user.save(), jwt.sign, the response
LoginSave(r) ==
    LET req == inflight[r].login
        i == inflight[r].id
        user == [inflight[r].user EXCEPT !.lastLogin = now, !.loginCount = @ + 1]
    IN  /\ inflight[r].pc = "comparing"
        /\ IF ~bcryptCompare(req[2], inflight[r].user.password)
           THEN /\ LoginAnswer(r, req, 400, "INVALID_CREDENTIALS", 0, NoToken)
                /\ UNCHANGED <<users, held>>
           ELSE /\ users' = SaveModified(users, i, user, inflight[r].clean, now)
                /\ LoginAnswer(r, req, 200, "OK", i, jwtSign(i, now))
                /\ held' \in Keep(held, resp'.token)
        /\ UNCHANGED <<now, alerts, emitted>>

\* bob has registered and holds the token of the registration; no request
\* has arrived yet
InitLoginRace ==
    /\ \E o \in RegisterOutcomes(<<AdminUser, TestUser>>, S_bob, E_bob, P_secret1, "s1", 0) :
          /\ users = o.users
          /\ held = o.resp.token
    /\ now = 0
    /\ resp = Response("none", <<>>, 0, "", 0, NoToken, "")
    /\ inflight = [r \in Requests |-> [pc |-> "idle"]]
    /\ alerts = <<>>
    /\ emitted = <<>>

NextLoginRace ==
    \/ \E r \in Requests, password \in {P_secret1, P_test123} : LoginFind(r, S_bob, password)
    \/ \E r \in Requests : LoginSave(r)
    \/ \E r \in Requests : AuthLoad(r, "WEEKLY")
    \/ \E r \in Requests : AuthSave(r)
    \/ \E r \in Requests : SubCheck(r)
    \/ Tick /\ UNCHANGED <<inflight, alerts, emitted>>

SpecLoginRace == InitLoginRace /\ [][NextLoginRace]_vars

----------------------------------------------------------------------------
(* Store failures.  An operation on the store may reject at its await.       *)
(* authenticateToken awaits inside try/catch; checkSubscription is an async  *)
(* function without one, and Express 4 (the version whose router accepts     *)
(* the path '*' this server mounts) does not observe the promise a           *)
(* middleware returns.                                                       *)

\* User.findById rejects: the catch of authenticateToken answers
AuthLoadFails(r, rt) ==
    /\ inflight[r].pc = "idle"
    /\ jwtVerify(held, now)
    /\ Answer(r, rt, 500, "AUTH_ERROR")
    /\ UNCHANGED <<users, now, held, alerts, emitted>>

\* The lastActive save rejects: the catch of authenticateToken answers
AuthSaveFails(r) ==
    /\ inflight[r].pc = "loaded"
    /\ Answer(r, inflight[r].rt, 500, "AUTH_ERROR")
    /\ UNCHANGED <<users, now, held, alerts, emitted>>

\* The save of the downgrade rejects: the promise of the middleware rejects,
\* nothing catches it, neither next nor res is called
SubSaveFails(r) ==
    /\ inflight[r].pc = "expired"
    /\ inflight' = [inflight EXCEPT ![r] = [pc |-> "unhandled", rt |-> inflight[r].rt]]
    /\ UNCHANGED <<users, now, held, resp, alerts, emitted>>

NextFail ==
    \/ \E r \in Requests, rt \in RequiredTiers : AuthLoad(r, rt)
    \/ \E r \in Requests : AuthSave(r)
    \/ \E r \in Requests : SubCheck(r)
    \/ \E r \in Requests : SubSave(r)
    \/ \E r \in Requests, rt \in RequiredTiers : AuthLoadFails(r, rt)
    \/ \E r \in Requests : AuthSaveFails(r)
    \/ \E r \in Requests : SubSaveFails(r)
    \/ RaceTick

SpecFail == InitRace /\ [][NextFail]_vars

----------------------------------------------------------------------------
(* The alert routes and the listings of src/server.js *)

FreeLimit == 5        \* alerts.slice(0, 5), activeUsers.slice(0, 5)
DefaultLimit == 50    \* req.query.limit when absent
ActiveWindow == 0     \* 10 minutes, in clock ticks: the same tick
MaxAlerts == 6        \* alerts created
MaxUsers == 6         \* accounts stored
ListMaxTime == 1      \* the clock runs 0..ListMaxTime while the listings are explored

S_carol == <<"c","a","r","o","l">>
S_dave == <<"d","a","v","e">>
S_erin == <<"e","r","i","n">>
E_carol == <<"c","@","x",".","i","o">>
E_dave == <<"d","@","x",".","i","o">>
E_erin == <<"e","@","x",".","i","o">>

AlertTypes == {"NEWS", "BOT_SIGNAL"}

\* new Alert({ ... }) with the schema's defaults
NewAlert(type, expiresAt, createdBy, t) ==
    [type |-> type,
     isActive |-> TRUE,
     expiresAt |-> expiresAt,
     createdBy |-> createdBy,
     createdAt |-> t]

\* A listing's response: the items are the _ids of the documents, in order
ListResponse(op, req, status, code, uid, items, hasMore) ==
    [op |-> op, req |-> req, status |-> status, code |-> code, uid |-> uid,
     token |-> NoToken, detail |-> "", items |-> items, hasMore |-> hasMore]

\* The ids of a set in ascending order
RECURSIVE Ascending(_)
Ascending(ids) ==
    IF ids = {} THEN <<>>
    ELSE LET least == CHOOSE i \in ids : \A j \in ids : i <= j
         IN  <<least>> \o Ascending(ids \ {least})

\* The sequence of the elements of seq that satisfy keep, in seq's order
RECURSIVE Select(_, _)
Select(seq, keep) ==
    IF seq = <<>> THEN <<>>
    ELSE (IF keep[Head(seq)] THEN <<Head(seq)>> ELSE <<>>) \o Select(Tail(seq), keep)

\* A stable sort of seq by descending key
RECURSIVE StableDescending(_, _)
StableDescending(seq, key) ==
    IF seq = <<>> THEN <<>>
    ELSE LET top == CHOOSE k \in {key[i] : i \in DOMAIN key} :
                        /\ \E n \in DOMAIN seq : key[seq[n]] = k
                        /\ \A n \in DOMAIN seq : key[seq[n]] <= k
         IN  Select(seq, [i \in DOMAIN key |-> key[i] = top])
                 \o StableDescending(Select(seq, [i \in DOMAIN key |-> key[i] # top]), key)

Reverse(seq) == [n \in DOMAIN seq |-> seq[Len(seq) + 1 - n]]

\* .sort({ key: -1 }): the documents in descending key.  The query does not
\* determine the order of documents with equal keys; the collection is
\* scanned in insertion order or against it, and the sort keeps that order
SortDescending(ids, key) ==
    {StableDescending(Ascending(ids), key),
     StableDescending(Reverse(Ascending(ids)), key)}

\* Array.prototype.slice(0, n)
Slice(seq, n) == SubSeq(seq, 1, IF Len(seq) < n THEN Len(seq) ELSE n)

\* .limit(limit).skip(skip) on a sorted cursor: skip first, then limit
SkipLimit(seq, skip, limit) ==
    SubSeq(seq, skip + 1, IF Len(seq) < skip + limit THEN Len(seq) ELSE skip + limit)

\* The query of GET /api/alerts
AlertMatches(store, type, t) ==
    {i \in DOMAIN store :
        /\ store[i].isActive # FALSE
        /\ type # "ALL" => store[i].type = type
        /\ \A d \in store[i].expiresAt : d > t}

\* Alert.find(query).sort({ createdAt: -1 }).limit(limit).skip((page - 1) * limit)
FindAlerts(store, type, limit, page, t) ==
    {SkipLimit(sorted, (page - 1) * limit, limit) :
        sorted \in SortDescending(AlertMatches(store, type, t),
                                  [i \in DOMAIN store |-> store[i].createdAt])}

\* A limit of three items, as other variants of the server apply
ApplyLimit_Three(user, items) ==
    IF user.tier = "FREE" /\ ~user.isAdmin THEN Slice(items, 3) ELSE items

\* The subscription limit of the listings
ApplyLimit(user, items) ==
    IF user.tier = "FREE" /\ ~user.isAdmin THEN Slice(items, FreeLimit) ELSE items

\* GET /api/alerts (authenticateToken)
GetAlerts(tok, type, limit, page) ==
    LET a == authenticateToken(users, tok, now)
        req == <<tok, type, limit, page>>
    IN  /\ users' = a.users
        /\ IF ~a.passed
           THEN resp' = ListResponse("alerts", req, a.status, a.code, a.uid, <<>>, FALSE)
           ELSE \E found \in FindAlerts(alerts, type, limit, page, now) :
                   resp' = ListResponse("alerts", req, 200, "OK", a.uid,
                               ApplyLimit(a.users[a.uid], found), Len(found) = limit)
        /\ UNCHANGED <<now, held, inflight, alerts, emitted>>

\* User.find({ lastActive: { $gte: timeThreshold } }).sort({ lastActive: -1 })
FindActiveUsers(store, t) ==
    SortDescending({i \in DOMAIN store : store[i].lastActive >= t - ActiveWindow},
                   [i \in DOMAIN store |-> store[i].lastActive])

\* GET /api/users/active (authenticateToken)
GetActiveUsers(tok) ==
    LET a == authenticateToken(users, tok, now)
    IN  /\ users' = a.users
        /\ IF ~a.passed
           THEN resp' = ListResponse("active", tok, a.status, a.code, a.uid, <<>>, FALSE)
           ELSE \E found \in FindActiveUsers(a.users, now) :
                   resp' = ListResponse("active", tok, 200, "OK", a.uid,
                               ApplyLimit(a.users[a.uid], found), FALSE)
        /\ UNCHANGED <<now, held, inflight, alerts, emitted>>

\* POST /api/alerts (authenticateToken, requireAdmin); complete tells whether
\* title, message and type are all present
CreateAlert(tok, complete, type, expiresAt) ==
    LET a == authenticateToken(users, tok, now)
        req == <<tok, complete, type, expiresAt>>
    IN  /\ users' = a.users
        /\ IF ~a.passed
           THEN /\ resp' = Response("createAlert", req, a.status, a.code, a.uid, NoToken, "")
                /\ UNCHANGED <<alerts, emitted>>
           ELSE IF ~requireAdmin(a.users[a.uid])
           THEN /\ resp' = Response("createAlert", req, 403, "ADMIN_REQUIRED", a.uid, NoToken, "")
                /\ UNCHANGED <<alerts, emitted>>
           ELSE IF ~complete
           THEN /\ resp' = Response("createAlert", req, 400, "MISSING_FIELDS", a.uid, NoToken, "")
                /\ UNCHANGED <<alerts, emitted>>
           ELSE /\ Len(alerts) < MaxAlerts
                /\ alerts' = Append(alerts, NewAlert(type, expiresAt, a.uid, now))
                /\ emitted' = Append(emitted, <<"newAlert", Len(alerts) + 1>>)
                /\ resp' = Response("createAlert", req, 201, "OK", a.uid, NoToken, "")
        /\ UNCHANGED <<now, held, inflight>>

\* The accounts that register, in the order in which they do
ListRegisterRequests ==
    <<<<S_bob, E_bob, P_secret1>>, <<S_carol, E_carol, P_secret1>>,
      <<S_dave, E_dave, P_secret1>>, <<S_erin, E_erin, P_secret1>>>>

\* The alerts the admin posts: news that stay and bot signals that expire
\* at the next tick, in turn, and a request with a field missing
AlertInputs(n, t) ==
    {IF n % 2 = 0 THEN <<TRUE, "NEWS", NoDate>>
                  ELSE <<TRUE, "BOT_SIGNAL", DateAt(t + 1)>>,
     <<FALSE, "NEWS", NoDate>>}

\* The limit and page parameters of the alert listing
PageInputs == {<<DefaultLimit, 1>>, <<FreeLimit, 2>>}

\* The runs explored fill one collection at a time: alerts are posted while
\* at most one account has registered, and further accounts register while
\* there are no alerts
\* The account that subscribes is the first to register (_id 3).
NextLists ==
    \/ \E l \in {<<S_admin, P_admin123>>} : Login(l[1], l[2]) /\ Quiet
    \/ \E n \in {Len(users) - 1} :
          /\ n \in DOMAIN ListRegisterRequests /\ Len(users) < MaxUsers
          /\ n > 1 => alerts = <<>>
          /\ \E r \in {ListRegisterRequests[n]}, s \in Salts : Register(r[1], r[2], r[3], s)
          /\ Quiet
    \/ \E tok \in {held}, in \in AlertInputs(Len(alerts), now) :
          /\ Len(users) <= 3
          /\ CreateAlert(tok, in[1], in[2], in[3])
    \/ \E tok \in {held}, type \in {"ALL", "NEWS"}, lp \in PageInputs :
          GetAlerts(tok, type, lp[1], lp[2])
    \/ \E tok \in {held} : GetActiveUsers(tok)
    \/ \E u \in {held.userId} \cap {3} \cap DOMAIN users :
          StripeWebhook("checkout.session.completed", u, "sub_1", "active", "WEEKLY") /\ Quiet
    \/ now < ListMaxTime /\ Tick /\ Quiet

SpecLists == Init /\ [][NextLists]_vars

\* A subscription that lapses: the admin posts news, an account registers,
\* subscribes for a week, refreshes its token, and lists after the period
\* has ended
NextLapse ==
    \/ \E l \in {<<S_admin, P_admin123>>} : Login(l[1], l[2]) /\ Quiet
    \/ \E r \in {ListRegisterRequests[1]}, s \in Salts :
          Register(r[1], r[2], r[3], s) /\ Quiet
    \/ \E tok \in {held} : Refresh(tok) /\ Quiet
    \/ \E tok \in {held} : CreateAlert(tok, TRUE, "NEWS", NoDate)
    \/ \E tok \in {held} : GetAlerts(tok, "ALL", DefaultLimit, 1)
    \/ \E tok \in {held} : GetActiveUsers(tok)
    \/ \E tok \in {held} : GatedRequest(tok, "WEEKLY", 0) /\ Quiet
    \/ \E u \in {held.userId} \cap {3} \cap DOMAIN users :
          StripeWebhook("checkout.session.completed", u, "sub_1", "active", "WEEKLY") /\ Quiet
    \/ Tick /\ Quiet

SpecLapse == Init /\ [][NextLapse]_vars

\* Alert writes and their broadcasts, request by request.  POST /api/alerts
\* awaits alert.save() and alert.populate() before io.emit; DELETE awaits
\* Alert.findByIdAndDelete before io.emit; other requests are handled at
\* each await.

\* The slot of a document that Alert.findByIdAndDelete removed: _ids are not
\* given out again, and no query finds the slot
Removed ==
    [type |-> "removed", isActive |-> FALSE, expiresAt |-> NoDate,
     createdBy |-> 0, createdAt |-> 0]

\* Alert.findById(id) finds a document
Stored(store, id) == id \in DOMAIN store /\ store[id] # Removed

\* A request on the alerts ends: the response goes out
AlertAnswer(r, op, req, id, status, code, uid) ==
    /\ inflight' = [inflight EXCEPT ![r] = [pc |-> "done", op |-> op, id |-> id,
                                            status |-> status, code |-> code]]
    /\ resp' = Response(op, req, status, code, uid, NoToken, "")

\* A mutation of the handler: the broadcast goes out although populate failed
CreateAlertPopulateFails_Emits(r) ==
    /\ inflight[r].pc = "saved"
    /\ emitted' = Append(emitted, <<"newAlert", inflight[r].id>>)
    /\ AlertAnswer(r, "createAlert", inflight[r].req, inflight[r].id, 500,
                   "Error creating alert", inflight[r].uid)
    /\ UNCHANGED <<users, now, held, alerts>>

\* POST /api/alerts up to the end of await alert.save(); saves tells whether
\* the store accepts the write
CreateAlertSave(r, tok, complete, type, saves) ==
    LET a == authenticateToken(users, tok, now)
        req == <<tok, complete, type>>
        id == Len(alerts) + 1
    IN  /\ inflight[r].pc = "idle"
        /\ users' = a.users
        /\ IF ~a.passed
           THEN /\ AlertAnswer(r, "createAlert", req, 0, a.status, a.code, a.uid)
                /\ UNCHANGED alerts
           ELSE IF ~requireAdmin(a.users[a.uid])
           THEN /\ AlertAnswer(r, "createAlert", req, 0, 403, "ADMIN_REQUIRED", a.uid)
                /\ UNCHANGED alerts
           ELSE IF ~complete
           THEN /\ AlertAnswer(r, "createAlert", req, 0, 400, "MISSING_FIELDS", a.uid)
                /\ UNCHANGED alerts
           ELSE IF ~saves
           THEN /\ AlertAnswer(r, "createAlert", req, 0, 500, "Error creating alert", a.uid)
                /\ UNCHANGED alerts
           ELSE /\ Len(alerts) < MaxAlerts
                /\ alerts' = Append(alerts, NewAlert(type, NoDate, a.uid, now))
                /\ inflight' = [inflight EXCEPT ![r] =
                                   [pc |-> "saved", op |-> "createAlert", req |-> req,
                                    id |-> id, uid |-> a.uid]]
                /\ UNCHANGED resp
        /\ UNCHANGED <<now, held, emitted>>

\* await alert.populate() resolves: io.emit('newAlert', alert), then 201
CreateAlertEmit(r) ==
    /\ inflight[r].pc = "saved"
    /\ emitted' = Append(emitted, <<"newAlert", inflight[r].id>>)
    /\ AlertAnswer(r, "createAlert", inflight[r].req, inflight[r].id, 201, "OK", inflight[r].uid)
    /\ UNCHANGED <<users, now, held, alerts>>

\* await alert.populate() rejects: the catch block answers 500
CreateAlertPopulateFails(r) ==
    /\ inflight[r].pc = "saved"
    /\ AlertAnswer(r, "createAlert", inflight[r].req, inflight[r].id, 500,
                   "Error creating alert", inflight[r].uid)
    /\ UNCHANGED <<users, now, held, alerts, emitted>>

\* DELETE /api/alerts/:id up to the end of await Alert.findByIdAndDelete;
\* works tells whether the store carries the operation out
DeleteAlertFind(r, tok, id, works) ==
    LET a == authenticateToken(users, tok, now)
        req == <<tok, id>>
    IN  /\ inflight[r].pc = "idle"
        /\ users' = a.users
        /\ IF ~a.passed
           THEN /\ AlertAnswer(r, "deleteAlert", req, id, a.status, a.code, a.uid)
                /\ UNCHANGED alerts
           ELSE IF ~requireAdmin(a.users[a.uid])
           THEN /\ AlertAnswer(r, "deleteAlert", req, id, 403, "ADMIN_REQUIRED", a.uid)
                /\ UNCHANGED alerts
           ELSE IF ~works
           THEN /\ AlertAnswer(r, "deleteAlert", req, id, 500, "Error deleting alert", a.uid)
                /\ UNCHANGED alerts
           ELSE IF ~Stored(alerts, id)
           THEN /\ AlertAnswer(r, "deleteAlert", req, id, 404, "Alert not found", a.uid)
                /\ UNCHANGED alerts
           ELSE /\ alerts' = [alerts EXCEPT ![id] = Removed]
                /\ inflight' = [inflight EXCEPT ![r] =
                                   [pc |-> "removed", op |-> "deleteAlert", req |-> req,
                                    id |-> id, uid |-> a.uid]]
                /\ UNCHANGED resp
        /\ UNCHANGED <<now, held, emitted>>

\* The handler resumes with the removed document: io.emit('alertDeleted', id),
\* then the response
DeleteAlertEmit(r) ==
    /\ inflight[r].pc = "removed"
    /\ emitted' = Append(emitted, <<"alertDeleted", inflight[r].id>>)
    /\ AlertAnswer(r, "deleteAlert", inflight[r].req, inflight[r].id, 200, "OK", inflight[r].uid)
    /\ UNCHANGED <<users, now, held, alerts>>

\* The admin or the test account has logged in; no request has arrived yet
InitBroadcast ==
    /\ \E l \in SubLoginRequests :
         \E o \in LoginOutcomes(<<AdminUser, TestUser>>, l[1], l[2], 0) :
            /\ o.resp.token # NoToken
            /\ users = o.users
            /\ held = o.resp.token
    /\ now = 0
    /\ resp = Response("none", <<>>, 0, "", 0, NoToken, "")
    /\ inflight = [r \in Requests |-> [pc |-> "idle"]]
    /\ alerts = <<>>
    /\ emitted = <<>>

NextBroadcast ==
    \/ \E r \in Requests, tok \in {NoToken, held}, complete \in BOOLEAN, saves \in BOOLEAN :
          CreateAlertSave(r, tok, complete, "NEWS", saves)
    \/ \E r \in Requests : CreateAlertEmit(r)
    \/ \E r \in Requests : CreateAlertPopulateFails(r)
    \/ \E r \in Requests, tok \in {NoToken, held}, id \in 1..NumRequests, works \in BOOLEAN :
          DeleteAlertFind(r, tok, id, works)
    \/ \E r \in Requests : DeleteAlertEmit(r)
    \/ Tick /\ Quiet

SpecBroadcast == InitBroadcast /\ [][NextBroadcast]_vars

----------------------------------------------------------------------------
(* src/unnamed/part_001: the in-memory variant.  Accounts and alerts are     *)
(* arrays; an account's id is its position, an alert's id is the array       *)
(* length plus one at its creation.  In this specification one clock tick    *)
(* is a day.                                                                 *)

DemoTokenTTL == 1     \* expiresIn: '24h'
MaxBroadcasts == 2    \* alerts created or deleted

S_user1 == <<"u","s","e","r","1">>
E_adminExample == <<"a","d","m","i","n","@","e","x","a","m","p","l","e",".","c","o","m">>
E_user1 == <<"u","s","e","r","1","@","e","x","a","m","p","l","e",".","c","o","m">>

\* An entry of the users array
DemoUser(username, email, passwordHash, isAdmin) ==
    [username |-> username, email |-> email, password |-> passwordHash,
     isAdmin |-> isAdmin, isActive |-> TRUE]

\* An entry of the alerts array; userId 0 stands for 'anonymous'
DemoAlert(id, type, userId, t) ==
    [id |-> id, type |-> type, userId |-> userId, createdAt |-> t]

\* signToken
DemoSign(id, user, t) ==
    [userId |-> id, username |-> user.username, email |-> user.email,
     isAdmin |-> user.isAdmin, iat |-> t, exp |-> t + DemoTokenTTL,
     sig |-> <<JWT_SECRET, id, user.username, user.email, user.isAdmin,
               t, t + DemoTokenTTL>>]

\* authFromHeader: the decoded payload, or null (FALSE here)
DemoAuthFromHeader(tok, t) ==
    /\ tok # NoToken
    /\ tok.sig = <<JWT_SECRET, tok.userId, tok.username, tok.email, tok.isAdmin,
                   tok.iat, tok.exp>>
    /\ ~TokenExpired(tok, t)

\* users.find(u => u.username === username || u.email === username): the
\* first match in array order, 0 when there is none
DemoFind(store, identifier) ==
    LET found == {i \in DOMAIN store :
                     store[i].username = identifier \/ store[i].email = identifier}
    IN  IF found = {} THEN 0 ELSE CHOOSE i \in found : \A j \in found : i <= j

\* isValidPassword of loginHandler
DemoValidPassword(password, hash) ==
    password = P_admin123 \/ bcryptCompare(password, hash)

\* loginHandler (POST /api/login, POST /api/auth/login)
DemoLogin(identifier, password) ==
    LET req == <<identifier, password>>
        i == DemoFind(users, identifier)
    IN  /\ IF identifier = Empty \/ password = Empty
           THEN /\ resp' = Response("login", req, 400, "Username and password required", 0, NoToken, "")
                /\ UNCHANGED held
           ELSE IF i = 0
           THEN /\ resp' = Response("login", req, 401, "Invalid credentials", 0, NoToken, "")
                /\ UNCHANGED held
           ELSE IF ~DemoValidPassword(password, users[i].password)
           THEN /\ resp' = Response("login", req, 401, "Invalid credentials", 0, NoToken, "")
                /\ UNCHANGED held
           ELSE /\ resp' = Response("login", req, 200, "Login successful", i,
                                    DemoSign(i, users[i], now), "")
                /\ held' \in Keep(held, resp'.token)
        /\ UNCHANGED <<users, now, inflight, alerts, emitted>>

\* POST /api/auth/register
DemoRegister(username, email, password, salt) ==
    LET req == <<username, email, password>>
        id == Len(users) + 1
        newUser == DemoUser(username, email, bcryptHash(password, salt), FALSE)
    IN  /\ IF username = Empty \/ email = Empty \/ password = Empty
           THEN /\ resp' = Response("register", req, 400, "Username, email, and password are required", 0, NoToken, "")
                /\ UNCHANGED <<users, held>>
           ELSE IF \E i \in DOMAIN users :
                      users[i].username = username \/ users[i].email = email
           THEN /\ resp' = Response("register", req, 409, "Username or email already exists", 0, NoToken, "")
                /\ UNCHANGED <<users, held>>
           ELSE /\ Len(users) < MaxUsers
                /\ users' = Append(users, newUser)
                /\ resp' = Response("register", req, 201, "Registration successful", id,
                                    DemoSign(id, newUser, now), "")
                /\ held' \in Keep(held, resp'.token)
        /\ UNCHANGED <<now, inflight, alerts, emitted>>

\* POST /api/alerts; complete tells whether type, symbol and price are present
DemoCreateAlert(tok, complete, type) ==
    LET req == <<tok, complete, type>>
        decoded == DemoAuthFromHeader(tok, now)
        newAlert == DemoAlert(Len(alerts) + 1, type, IF decoded THEN tok.userId ELSE 0, now)
    IN  /\ IF ~complete
           THEN /\ resp' = Response("createAlert", req, 400, "Missing required fields", 0, NoToken, "")
                /\ UNCHANGED <<alerts, emitted>>
           ELSE /\ Len(emitted) < MaxBroadcasts
                /\ alerts' = Append(alerts, newAlert)
                /\ emitted' = Append(emitted, <<"new-alert", newAlert.id>>)
                /\ resp' = Response("createAlert", req, 201, "Alert created successfully",
                                    newAlert.userId, NoToken, "")
        /\ UNCHANGED <<users, now, held, inflight>>

\* DELETE /api/alerts/:id
DemoDeleteAlert(tok, id) ==
    LET req == <<tok, id>>
        hits == {n \in DOMAIN alerts : alerts[n].id = id}
        alertIndex == IF hits = {} THEN 0 ELSE CHOOSE n \in hits : \A m \in hits : n <= m
    IN  /\ IF alertIndex = 0
           THEN /\ resp' = Response("deleteAlert", req, 404, "Alert not found", 0, NoToken, "")
                /\ UNCHANGED <<alerts, emitted>>
           ELSE /\ Len(emitted) < MaxBroadcasts
                /\ alerts' = SubSeq(alerts, 1, alertIndex - 1)
                                \o SubSeq(alerts, alertIndex + 1, Len(alerts))
                /\ emitted' = Append(emitted, <<"alert-deleted", id>>)
                /\ resp' = Response("deleteAlert", req, 200, "Alert deleted successfully",
                                    0, NoToken, "")
        /\ UNCHANGED <<users, now, held, inflight>>

\* The arrays the module starts with.  Both accounts carry the same hash,
\* which the source says is that of 'admin123'
InitDemo ==
    /\ users = <<DemoUser(S_admin, E_adminExample, bcryptHash(P_admin123, "s0"), TRUE),
                 DemoUser(S_user1, E_user1, bcryptHash(P_admin123, "s0"), FALSE)>>
    /\ alerts = <<DemoAlert(1, "BUY", 1, 0), DemoAlert(2, "SELL", 1, 0)>>
    /\ now = 0
    /\ held = NoToken
    /\ resp = Response("none", <<>>, 0, "", 0, NoToken, "")
    /\ inflight = <<>>
    /\ emitted = <<>>

DemoRegisterRequests ==
    {<<S_bob, Empty, P_secret1>>, <<S_bob, E_bob, P_secret1>>,
     <<S_admin, E_bob, P_secret1>>, <<S_carol, E_bobMixed, P_secret1>>}

DemoLoginRequests ==
    {<<Empty, P_secret1>>, <<S_ab, P_secret1>>, <<S_admin, P_admin123>>,
     <<S_admin, P_secret1>>, <<S_bob, P_secret1>>, <<S_bob, P_test123>>,
     <<E_bob, P_admin123>>}

NextDemo ==
    \/ \E r \in DemoRegisterRequests, s \in Salts : DemoRegister(r[1], r[2], r[3], s)
    \/ \E l \in DemoLoginRequests : DemoLogin(l[1], l[2])
    \/ \E tok \in {NoToken, held}, complete \in BOOLEAN : DemoCreateAlert(tok, complete, "BUY")
    \/ \E tok \in {NoToken, held}, id \in 1..(Len(alerts) + 1) : DemoDeleteAlert(tok, id)
    \/ Tick /\ Quiet

SpecDemo == InitDemo /\ [][NextDemo]_vars

\* Concurrent register requests.  The handler runs to its one await,
\* bcrypt.hash, and resumes in a later turn of the event loop; handlers of
\* other requests run in between.

\* A register request ends: the response goes out
DemoRegAnswer(r, req, status, code, uid, token) ==
    /\ inflight' = [inflight EXCEPT ![r] = [pc |-> "done", req |-> req, status |-> status]]
    /\ resp' = Response("register", req, status, code, uid, token, "")

\* The handler up to await bcrypt.hash: the field check and users.find
DemoRegisterCheck(r, username, email, password) ==
    LET req == <<username, email, password>>
    IN  /\ inflight[r].pc = "idle"
        /\ IF username = Empty \/ email = Empty \/ password = Empty
           THEN DemoRegAnswer(r, req, 400, "Username, email, and password are required", 0, NoToken)
           ELSE IF \E i \in DOMAIN users :
                      users[i].username = username \/ users[i].email = email
           THEN DemoRegAnswer(r, req, 409, "Username or email already exists", 0, NoToken)
           ELSE /\ inflight' = [inflight EXCEPT ![r] = [pc |-> "hashing", req |-> req]]
                /\ UNCHANGED resp
        /\ UNCHANGED <<users, now, held, alerts, emitted>>

\* The handler from the hash on: newUser, users.push, signToken, 201
DemoRegisterInsert(r, salt) ==
    LET req == inflight[r].req
        id == Len(users) + 1
        newUser == DemoUser(req[1], req[2], bcryptHash(req[3], salt), FALSE)
    IN  /\ inflight[r].pc = "hashing"
        /\ Len(users) < MaxUsers
        /\ users' = Append(users, newUser)
        /\ DemoRegAnswer(r, req, 201, "Registration successful", id, DemoSign(id, newUser, now))
        /\ held' \in Keep(held, resp'.token)
        /\ UNCHANGED <<now, alerts, emitted>>

InitRegisterRace ==
    /\ users = <<DemoUser(S_admin, E_adminExample, bcryptHash(P_admin123, "s0"), TRUE),
                 DemoUser(S_user1, E_user1, bcryptHash(P_admin123, "s0"), FALSE)>>
    /\ alerts = <<DemoAlert(1, "BUY", 1, 0), DemoAlert(2, "SELL", 1, 0)>>
    /\ now = 0
    /\ held = NoToken
    /\ resp = Response("none", <<>>, 0, "", 0, NoToken, "")
    /\ inflight = [r \in Requests |-> [pc |-> "idle"]]
    /\ emitted = <<>>

NextRegisterRace ==
    \/ \E r \in Requests, q \in DemoRegisterRequests : DemoRegisterCheck(r, q[1], q[2], q[3])
    \/ \E r \in Requests, s \in Salts : DemoRegisterInsert(r, s)
    \/ Tick /\ Quiet

SpecRegisterRace == InitRegisterRace /\ [][NextRegisterRace]_vars

----------------------------------------------------------------------------
(* src/unnamed/part_000: the smallest variant.  One account in an array,     *)
(* its password stored as it is; the token carries the id and the username.  *)
(* In this specification one clock tick is two hours.                        *)

MiniTokenTTL == 1     \* expiresIn: '2h'

P_password123 == <<"p","a","s","s","w","o","r","d","1","2","3">>

\* A password kept as it is: no algorithm, no salt
Plaintext(password) == [alg |-> "none", salt |-> "", pw |-> password]

\* An entry of the users array
MiniUser(username, password, isAdmin) ==
    [username |-> username, password |-> Plaintext(password), isAdmin |-> isAdmin]

\* jwt.sign({ id, username }, JWT_SECRET, { expiresIn: '2h' })
MiniSign(id, username, t) ==
    [userId |-> id, username |-> username, iat |-> t, exp |-> t + MiniTokenTTL,
     sig |-> <<"supersecret", id, username, t, t + MiniTokenTTL>>]

\* authMiddleware: the status it answers with, or 0 when it calls next()
MiniAuth(tok, t) ==
    IF tok = NoToken THEN 401
    ELSE IF tok.sig # <<"supersecret", tok.userId, tok.username, tok.iat, tok.exp>>
            \/ TokenExpired(tok, t) THEN 403
    ELSE 0

\* A response with a JSON body that carries an account
MiniResponse(op, req, status, code, uid, token, body) ==
    [op |-> op, req |-> req, status |-> status, code |-> code, uid |-> uid,
     token |-> token, detail |-> "", body |-> body]

\* POST /api/auth/login: res.json({ token, user })
MiniLogin(username, password) ==
    LET req == <<username, password>>
        found == {i \in DOMAIN users :
                     users[i].username = username /\ users[i].password = Plaintext(password)}
    IN  /\ IF found = {}
           THEN /\ resp' = Response("login", req, 401, "Invalid credentials", 0, NoToken, "")
                /\ UNCHANGED held
           ELSE LET i == CHOOSE j \in found : \A k \in found : j <= k
                IN  /\ resp' = MiniResponse("login", req, 200, "OK", i,
                                   MiniSign(i, users[i].username, now), users[i])
                    /\ held' \in Keep(held, resp'.token)
        /\ UNCHANGED <<users, now, inflight, alerts, emitted>>

\* GET /api/alerts (authMiddleware): res.json(alerts)
MiniGetAlerts(tok) ==
    /\ resp' = IF MiniAuth(tok, now) # 0
               THEN Response("alerts", tok, MiniAuth(tok, now), "", 0, NoToken, "")
               ELSE ListResponse("alerts", tok, 200, "OK", tok.userId,
                                 [n \in 1..Len(alerts) |-> n], FALSE)
    /\ UNCHANGED <<users, now, held, inflight, alerts, emitted>>

\* POST /api/alerts: no middleware
MiniPostAlert(tok, title) ==
    /\ Len(emitted) < MaxBroadcasts
    /\ alerts' = <<[title |-> title, createdAt |-> now]>> \o alerts
    /\ emitted' = Append(emitted, <<"alert", title>>)
    /\ resp' = Response("createAlert", <<tok, title>>, 200, "OK", 0, NoToken, "")
    /\ UNCHANGED <<users, now, held, inflight>>

\* PUT /api/users/:id (authMiddleware)
MiniUpdateUser(tok, id, username, isAdmin) ==
    LET req == <<tok, id, username, isAdmin>>
    IN  /\ IF MiniAuth(tok, now) # 0
           THEN /\ resp' = Response("updateUser", req, MiniAuth(tok, now), "", 0, NoToken, "")
                /\ UNCHANGED users
           ELSE IF id \notin DOMAIN users
           THEN /\ resp' = Response("updateUser", req, 404, "User not found", tok.userId, NoToken, "")
                /\ UNCHANGED users
           ELSE /\ users' = [users EXCEPT ![id].username = username, ![id].isAdmin = isAdmin]
                /\ resp' = Response("updateUser", req, 200, "OK", tok.userId, NoToken, "")
        /\ UNCHANGED <<now, held, inflight, alerts, emitted>>

InitMini ==
    /\ users = <<MiniUser(S_testuser, P_password123, FALSE)>>
    /\ alerts = <<>>
    /\ now = 0
    /\ held = NoToken
    /\ resp = Response("none", <<>>, 0, "", 0, NoToken, "")
    /\ inflight = <<>>
    /\ emitted = <<>>

MiniLoginRequests ==
    {<<S_testuser, P_password123>>, <<S_testuser, P_test123>>, <<S_bob, P_password123>>}

NextMini ==
    \/ \E l \in MiniLoginRequests : MiniLogin(l[1], l[2])
    \/ \E tok \in {NoToken, held} : MiniGetAlerts(tok)
    \/ \E tok \in {NoToken, held}, title \in {"a", "b"} : MiniPostAlert(tok, title)
    \/ \E tok \in {NoToken, held}, id \in 1..2, username \in {S_testuser, S_bob},
          isAdmin \in BOOLEAN : MiniUpdateUser(tok, id, username, isAdmin)
    \/ Tick /\ Quiet

SpecMini == InitMini /\ [][NextMini]_vars

----------------------------------------------------------------------------
(* Claims about registration *)

\* The step is the register request r: the response names the request it
\* answers, and the step is one the handler takes for it
RegisterStep(r) ==
    /\ resp'.op = "register" /\ resp'.req = r
    /\ \E s \in Salts : Register(r[1], r[2], r[3], s)

WellFormed(r) ==
    r[1] # Empty /\ r[2] # Empty /\ r[3] # Empty /\ Len(r[3]) >= MinPasswordLen

\* The request's username, or its email lower-cased, is that of a stored account
Collides(store, r) ==
    LET lowered == toLowerCase(r[2])
    IN  \E i \in DOMAIN store :
            store[i].username = r[1] \/ store[i].email = lowered

\* The same after trimming, which is how the account would be stored
CollidesTrimmed(store, r) ==
    LET username == trim(r[1])
        email == trim(toLowerCase(r[2]))
    IN  \E i \in DOMAIN store :
            store[i].username = username \/ store[i].email = email

Conflict(r) ==
    /\ resp'.op = "register" /\ resp'.req = r
    /\ resp'.status = 400 /\ resp'.code = "USER_EXISTS" /\ resp'.token = NoToken
    /\ users' = users

AddsOneAccount(r) ==
    /\ resp'.op = "register" /\ resp'.req = r
    /\ resp'.status = 201 /\ resp'.uid = Len(users) + 1
    /\ Len(users') = Len(users) + 1
    /\ SubSeq(users', 1, Len(users)) = users
    /\ users'[Len(users')].username = trim(r[1])
    /\ users'[Len(users')].email = trim(toLowerCase(r[2]))
    /\ bcryptCompare(r[3], users'[Len(users')].password)

----------------------------------------------------------------------------
(* Claims about login and token verification *)

\* The step is the login request l
LoginStep(l) ==
    /\ resp'.op = "login" /\ resp'.req = l
    /\ Login(l[1], l[2])

\* The request carries the account's username or its email, and its password
Knows(doc, l) ==
    /\ l[1] = doc.username \/ l[1] = doc.email
    /\ bcryptCompare(l[2], doc.password)

\* C2 as stated: login with a stored account's username or email and its
\* correct password succeeds for that account, and the token it returns
\* passes authenticateToken, resolving to that account, at every time before
\* the token's expiry -- whatever other accounts are stored.
C2_AsStated ==
    [][\A l \in {resp'.req} :
          LoginStep(l) =>
              \A i \in DOMAIN users :
                  Knows(users[i], l) =>
                      /\ resp'.status = 200 /\ resp'.uid = i
                      /\ \A t \in now..MaxTime :
                            ~TokenExpired(resp'.token, t) =>
                                /\ authenticateToken(users', resp'.token, t).passed
                                /\ authenticateToken(users', resp'.token, t).uid = i]_vars

\* C2 failing state: the test account's email and password were refused,
\* another account having that email as its username
C2_Refused ==
    /\ resp.op = "login" /\ resp.code = "INVALID_CREDENTIALS"
    /\ Knows(users[2], resp.req)
    /\ \E j \in DOMAIN users : j # 2 /\ users[j].username = users[2].email

\* The accounts whose username or email the identifier is, once trimmed and
\* (for the email) lower-cased
Named(store, identifier) ==
    LET asUsername == trim(identifier)
        asEmail == trim(toLowerCase(identifier))
    IN  {i \in DOMAIN store :
            store[i].username = asUsername \/ store[i].email = asEmail}

UnknownIdentifier(store, l) == Named(store, l[1]) = {}

WrongPassword(store, l) ==
    /\ Named(store, l[1]) # {}
    /\ \A i \in Named(store, l[1]) : ~bcryptCompare(l[2], store[i].password)

\* C3: a login request (both fields present) whose identifier names no
\* account, and one whose identifier names an account but whose password is
\* wrong, get the same response -- status 400, error INVALID_CREDENTIALS, no
\* token -- and leave every account (lastLogin, loginCount included) unchanged.
C3_SameFailure ==
    [][\A l \in {resp'.req} :
          (/\ LoginStep(l)
           /\ l[1] # Empty /\ l[2] # Empty
           /\ UnknownIdentifier(users, l) \/ WrongPassword(users, l)) =>
              /\ resp' = LoginNoUser(l)
              /\ resp'.status = 400 /\ resp'.code = "INVALID_CREDENTIALS"
              /\ resp'.token = NoToken /\ held' = held
              /\ users' = users]_vars

\* C3 witness: a known identifier with a wrong password was refused as
\* INVALID_CREDENTIALS
C3_Witness ==
    /\ resp.op = "login" /\ resp.code = "INVALID_CREDENTIALS"
    /\ WrongPassword(users, resp.req)

\* The step is GET /api/auth/profile bearing tok
ProfileStep(tok) ==
    /\ resp'.op = "profile" /\ resp'.req = tok
    /\ GetProfile(tok)

\* C4: authenticateToken does not pass a token whose expiry has elapsed, valid
\* signature or not, nor one whose signature does not match, expired or not;
\* both get 403 INVALID_TOKEN, and no account field (lastActive included)
\* changes.
C4_RejectsExpiredOrForged ==
    [][\A tok \in {resp'.req} :
          (/\ ProfileStep(tok)
           /\ tok # NoToken
           /\ TokenExpired(tok, now) \/ ~SignatureValid(tok)) =>
              /\ ~authenticateToken(users, tok, now).passed
              /\ resp'.status = 403 /\ resp'.code = "INVALID_TOKEN"
              /\ users' = users]_vars

\* C4 witness: a token with a valid signature was refused once expired
C4_Witness ==
    /\ resp.op = "profile" /\ resp.code = "INVALID_TOKEN"
    /\ resp.req # NoToken
    /\ SignatureValid(resp.req) /\ TokenExpired(resp.req, now)

----------------------------------------------------------------------------
(* Claims about the account a token resolves to *)

\* The step is an admin-only request of the backend_server.js variant
BackendDeleteStep(tok) ==
    /\ resp'.op = "deleteAlert" /\ resp'.req = tok
    /\ BackendDeleteAlert(tok)

\* C5 as stated, for src/backend_server.js: a request bearing a token that
\* verifies is authorised by requireAdmin according to the role the account
\* has in the store at the time of the request, not the role it had when the
\* token was issued.
C5_AsStated ==
    [][\A tok \in {held} :
          (/\ BackendDeleteStep(tok)
           /\ BackendAuthenticate(tok, now) = 0
           /\ tok.userId \in DOMAIN users) =>
              (resp'.status # 403 <=> users[tok.userId].isAdmin)]_vars

\* C5 failing state: an admin-only request was let through requireAdmin for
\* an account whose stored role is no longer admin
C5_StaleRole ==
    /\ resp.op = "deleteAlert" /\ resp.status = 404
    /\ resp.uid \in DOMAIN users
    /\ ~users[resp.uid].isAdmin

----------------------------------------------------------------------------
(* Claims about checkSubscription *)

\* The step is a request to a route gated at requiredTier, bearing tok, with
\* elapsed ticks passing between the two middlewares
GatedStep(tok, requiredTier, elapsed) ==
    /\ resp'.op = "gated" /\ resp'.req = <<tok, requiredTier>>
    /\ now' = now + elapsed
    /\ GatedRequest(tok, requiredTier, elapsed)

Authenticated(tok) == authenticateToken(users, tok, now).passed

\* req.user: the account as authenticateToken hands it to checkSubscription
SeenBy(tok) == authenticateToken(users, tok, now).users[tok.userId]

Passed(date, t) == IsSet(date) /\ Before(date, t)

\* C6: for an admin account checkSubscription allows the request whatever
\* the tier, the subscriptionEndDate and the required tier, and leaves the
\* tier as it was.
C6_AdminAllowed ==
    [][resp'.op = "gated" =>
       \A tok \in {resp'.req[1]}, rt \in {resp'.req[2]}, d \in {now' - now} :
          (/\ GatedStep(tok, rt, d)
           /\ Authenticated(tok)
           /\ users[tok.userId].isAdmin) =>
              /\ resp'.status = 200 /\ resp'.code = "OK"
              /\ users'[tok.userId].tier = users[tok.userId].tier]_vars

\* C6 witness: an admin whose paid tier's end date has passed was allowed
C6_Witness ==
    /\ resp.op = "gated" /\ resp.status = 200
    /\ users[resp.uid].isAdmin
    /\ users[resp.uid].tier \in PaidTiers
    /\ Passed(users[resp.uid].subscriptionEndDate, now)

\* C7 as stated: with requiredTier = FREE checkSubscription allows the
\* request of every account, a non-admin WEEKLY or MONTHLY account whose
\* subscriptionEndDate has passed included.
C7_AsStated ==
    [][resp'.op = "gated" =>
       \A tok \in {resp'.req[1]}, rt \in {resp'.req[2]}, d \in {now' - now} :
          (GatedStep(tok, rt, d) /\ Authenticated(tok) /\ rt = "FREE") =>
              resp'.status = 200]_vars

\* C7 failing state: a request to a route that requires FREE was denied as
\* SUBSCRIPTION_EXPIRED
C7_Denied ==
    /\ resp.op = "gated" /\ resp.req[2] = "FREE"
    /\ resp.status = 402 /\ resp.code = "SUBSCRIPTION_EXPIRED"

\* C8 as stated: for a non-admin account and a required tier other than
\* FREE, when subscriptionEndDate is set and has passed checkSubscription
\* stores tier = FREE and denies with SUBSCRIPTION_EXPIRED, whatever the tier
\* was (FREE included).
C8_AsStated ==
    [][resp'.op = "gated" =>
       \A tok \in {resp'.req[1]}, rt \in {resp'.req[2]}, d \in {now' - now} :
          (/\ GatedStep(tok, rt, d)
           /\ Authenticated(tok)
           /\ rt # "FREE"
           /\ ~users[tok.userId].isAdmin
           /\ Passed(users[tok.userId].subscriptionEndDate, now')) =>
              /\ resp'.status = 402 /\ resp'.code = "SUBSCRIPTION_EXPIRED"
              /\ users'[tok.userId].tier = "FREE"]_vars

\* C8 amended: for a non-admin account whose tier is not FREE and a required
\* tier other than FREE, when subscriptionEndDate is set and has passed
\* checkSubscription stores tier = FREE and denies with SUBSCRIPTION_EXPIRED;
\* the downgrade is stored although the request is denied.
C8_ExpiryDowngrade ==
    [][resp'.op = "gated" =>
       \A tok \in {resp'.req[1]}, rt \in {resp'.req[2]}, d \in {now' - now} :
          (/\ GatedStep(tok, rt, d)
           /\ Authenticated(tok)
           /\ rt # "FREE"
           /\ ~users[tok.userId].isAdmin
           /\ users[tok.userId].tier # "FREE"
           /\ Passed(users[tok.userId].subscriptionEndDate, now')) =>
              /\ resp'.status = 402 /\ resp'.code = "SUBSCRIPTION_EXPIRED"
              /\ users'[tok.userId].tier = "FREE"]_vars

\* C8 witness: a request was denied as SUBSCRIPTION_EXPIRED and the account
\* is stored with tier FREE
C8_Witness ==
    /\ resp.op = "gated" /\ resp.req[2] # "FREE"
    /\ resp.code = "SUBSCRIPTION_EXPIRED"
    /\ ~users[resp.uid].isAdmin
    /\ users[resp.uid].tier = "FREE"
    /\ Passed(users[resp.uid].subscriptionEndDate, now)

PaidExpired(doc, t) ==
    ~doc.isAdmin /\ doc.tier \in PaidTiers /\ Passed(doc.subscriptionEndDate, t)

Downgraded(doc, t) ==
    ~doc.isAdmin /\ doc.tier = "FREE" /\ Passed(doc.subscriptionEndDate, t)

\* The step is a Stripe webhook event
WebhookStep ==
    /\ resp'.op = "webhook"
    /\ \/ WebhookBadSignature
       \/ \E ty \in WebhookTypes, u \in DOMAIN users, sid \in SubscriptionIds,
             tr \in PaidTiers : StripeWebhook(ty, u, sid, "active", tr)

\* C9: for a non-admin WEEKLY or MONTHLY account whose subscriptionEndDate
\* has passed, a request gated at WEEKLY is denied with SUBSCRIPTION_EXPIRED
\* and leaves the account downgraded to FREE; a downgraded account stays
\* downgraded through every step that is no webhook event; and every gated
\* request (required tier other than FREE) of a downgraded account is denied
\* with SUBSCRIPTION_REQUIRED without checkSubscription writing anything, so
\* the expiry branch is not entered again.
C9_ExpiryOnce ==
    [][/\ resp'.op = "gated" =>
            \A tok \in {resp'.req[1]}, rt \in {resp'.req[2]}, d \in {now' - now} :
                (GatedStep(tok, rt, d) /\ Authenticated(tok)) =>
                    /\ (rt = "WEEKLY" /\ PaidExpired(users[tok.userId], now')) =>
                          /\ resp'.status = 402
                          /\ resp'.code = "SUBSCRIPTION_EXPIRED"
                          /\ Downgraded(users'[tok.userId], now')
                    /\ (rt # "FREE" /\ Downgraded(users[tok.userId], now)) =>
                          /\ resp'.status = 402
                          /\ resp'.code = "SUBSCRIPTION_REQUIRED"
                          /\ users'[tok.userId] = SeenBy(tok)
       /\ \A i \in DOMAIN users :
            (Downgraded(users[i], now) /\ ~WebhookStep) =>
                Downgraded(users'[i], now')]_vars

\* C9 witness: a downgraded account's gated request was denied as
\* SUBSCRIPTION_REQUIRED
C9_Witness ==
    /\ resp.op = "gated" /\ resp.req[2] = "WEEKLY"
    /\ resp.code = "SUBSCRIPTION_REQUIRED"
    /\ Downgraded(users[resp.uid], now)

\* The account with the fields checkSubscription is said not to read set to
\* other values
Perturbed(doc) ==
    {[doc EXCEPT !.subscriptionStatus = st, !.subscriptionId = sid,
                 !.loginCount = 0, !.lastActive = 0] :
        st \in {Null, "active", "canceled"}, sid \in {Null} \cup SubscriptionIds}

\* The decision depends on (isAdmin, tier, subscriptionEndDate, requiredTier,
\* now) only
DecisionDetermined(tok, rt) ==
    \A other \in Perturbed(SeenBy(tok)) :
        /\ checkSubscription(other, rt, now').status = resp'.status
        /\ checkSubscription(other, rt, now').code = resp'.code

\* C10 as stated: the decision depends on (isAdmin, tier, subscriptionEndDate,
\* requiredTier, now) only; on Allow and on Deny(SUBSCRIPTION_REQUIRED) no
\* field of the account changes; in the expiry branch tier becomes FREE and
\* every other field is unchanged.
C10_AsStated ==
    [][resp'.op = "gated" =>
       \A tok \in {resp'.req[1]}, rt \in {resp'.req[2]}, d \in {now' - now} :
          (GatedStep(tok, rt, d) /\ Authenticated(tok)) =>
              /\ DecisionDetermined(tok, rt)
              /\ resp'.code \in {"OK", "SUBSCRIPTION_REQUIRED"} =>
                    users'[tok.userId] = SeenBy(tok)
              /\ resp'.code = "SUBSCRIPTION_EXPIRED" =>
                    users'[tok.userId] = [SeenBy(tok) EXCEPT !.tier = "FREE"]
              /\ \A j \in DOMAIN users \ {tok.userId} : users'[j] = users[j]]_vars

\* C10 amended: the decision depends on (isAdmin, tier, subscriptionEndDate,
\* requiredTier, now) only; on Allow and on Deny(SUBSCRIPTION_REQUIRED) no
\* field of the account changes; in the expiry branch tier becomes FREE,
\* updatedAt becomes the time of the save, and every other field is unchanged.
C10_Frame ==
    [][resp'.op = "gated" =>
       \A tok \in {resp'.req[1]}, rt \in {resp'.req[2]}, d \in {now' - now} :
          (GatedStep(tok, rt, d) /\ Authenticated(tok)) =>
              /\ DecisionDetermined(tok, rt)
              /\ resp'.code \in {"OK", "SUBSCRIPTION_REQUIRED"} =>
                    users'[tok.userId] = SeenBy(tok)
              /\ resp'.code = "SUBSCRIPTION_EXPIRED" =>
                    users'[tok.userId] =
                        [SeenBy(tok) EXCEPT !.tier = "FREE", !.updatedAt = now']
              /\ \A j \in DOMAIN users \ {tok.userId} : users'[j] = users[j]]_vars

\* C10 witness: the expiry branch ran a tick after authenticateToken and
\* stamped updatedAt when it saved the downgrade
C10_Witness ==
    /\ resp.op = "gated" /\ resp.code = "SUBSCRIPTION_EXPIRED"
    /\ users[resp.uid].tier = "FREE"
    /\ users[resp.uid].updatedAt = now
    /\ users[resp.uid].lastActive < now

----------------------------------------------------------------------------
(* Claims about the tier invariant *)

\* An account's tier is consistent at time t: FREE, or an admin's, or with
\* a subscriptionEndDate that is unset or has not passed
TierConsistent(doc, t) ==
    doc.tier # "FREE" => (doc.isAdmin \/ ~Passed(doc.subscriptionEndDate, t))

----------------------------------------------------------------------------
(* Claims about concurrent gated requests *)

Finished(r) == inflight[r].pc = "done"

\* The request got past jwt.verify and the account lookup
Loaded(r) ==
    inflight[r].pc # "idle" /\ (Finished(r) => inflight[r].status \notin {403, 404})

\* C12: whatever the number and interleaving of concurrent gated requests of
\* one non-admin account whose subscription has expired, with no other
\* writer, no request is allowed through, every request that loaded the
\* account is denied with 402, and once all have finished the stored tier
\* is FREE.
C12_AllDenied ==
    /\ \A r \in Requests :
          Finished(r) => inflight[r].status \in {402, 403}
    /\ (/\ \A r \in Requests : Finished(r)
        /\ \E r \in Requests : Loaded(r)) => users[held.userId].tier = "FREE"

\* C12 witness: two requests loaded the account while its tier was still the
\* paid one, both were denied as expired, and all requests have finished
C12_Witness ==
    /\ \A r \in Requests : Finished(r)
    /\ Cardinality({r \in Requests : inflight[r].code = "SUBSCRIPTION_EXPIRED"
                                      /\ inflight[r].rt # "FREE"}) >= 2
    /\ users[held.userId].tier = "FREE"

----------------------------------------------------------------------------
(* Claims about the listings *)

\* The step is the alert listing with these parameters
GetAlertsStep(tok, type, limit, page) ==
    /\ resp'.op = "alerts" /\ resp'.req = <<tok, type, limit, page>>
    /\ GetAlerts(tok, type, limit, page)

\* The step is the active-user listing
GetActiveUsersStep(tok) ==
    /\ resp'.op = "active" /\ resp'.req = tok
    /\ GetActiveUsers(tok)

NonAdminFree(doc) == doc.tier = "FREE" /\ ~doc.isAdmin

\* items is the first min(FreeLimit, n) items of the n-item sequence full
IsFreePrefix(items, full) ==
    /\ Len(items) = (IF Len(full) < FreeLimit THEN Len(full) ELSE FreeLimit)
    /\ \A n \in DOMAIN items : items[n] = full[n]

\* key never increases along items
Descending(items, key) ==
    \A m, n \in DOMAIN items : m < n => key[items[m]] >= key[items[n]]

\* What the requester receives, given the result full of the query: the
\* whole of it, or its prefix for a FREE non-admin requester
Shaped(user, items, full) ==
    IF NonAdminFree(user) THEN IsFreePrefix(items, full) ELSE items = full

\* C13: in the alert listing and the active-user listing a FREE non-admin
\* requester receives exactly the first min(5, n) items of the n-item result
\* of the query, in its order (newest first for alerts, most recently active
\* first for users), and a WEEKLY, MONTHLY or admin requester receives the
\* whole result.
C13_ListingShaped ==
    [][/\ (resp'.op = "alerts" /\ resp'.status = 200) =>
            \A tok \in {resp'.req[1]}, type \in {resp'.req[2]},
               limit \in {resp'.req[3]}, page \in {resp'.req[4]} :
                GetAlertsStep(tok, type, limit, page) =>
                    /\ \E full \in FindAlerts(alerts, type, limit, page, now) :
                          Shaped(users'[resp'.uid], resp'.items, full)
                    /\ Descending(resp'.items,
                                  [i \in DOMAIN alerts |-> alerts[i].createdAt])
       /\ (resp'.op = "active" /\ resp'.status = 200) =>
            \A tok \in {resp'.req} :
                GetActiveUsersStep(tok) =>
                    /\ \E full \in FindActiveUsers(users', now) :
                          Shaped(users'[resp'.uid], resp'.items, full)
                    /\ Descending(resp'.items,
                                  [i \in DOMAIN users' |-> users'[i].lastActive])]_vars

\* C13 witness: a FREE non-admin account listed the alerts when more than
\* five matched its query, and received five
C13_Witness ==
    /\ resp.op = "alerts" /\ resp.status = 200
    /\ NonAdminFree(users[resp.uid])
    /\ Len(resp.items) = FreeLimit
    /\ Cardinality(AlertMatches(alerts, resp.req[2], now)) > FreeLimit
    /\ users[resp.uid].lastActive = now

\* The same in the active-user listing
C13_WitnessUsers ==
    /\ resp.op = "active" /\ resp.status = 200
    /\ NonAdminFree(users[resp.uid])
    /\ Len(resp.items) = FreeLimit
    /\ Cardinality({i \in DOMAIN users : users[i].lastActive = now}) > FreeLimit

\* A paying account received more than five items
C13_WitnessPaid ==
    /\ resp.op \in {"alerts", "active"} /\ resp.status = 200
    /\ users[resp.uid].tier = "WEEKLY"
    /\ Len(resp.items) > FreeLimit

\* The alert is among the five newest that match: fewer than FreeLimit
\* matching alerts are strictly newer
AmongNewest(store, matching, i) ==
    Cardinality({j \in matching : store[j].createdAt > store[i].createdAt}) < FreeLimit

\* C20 as stated: whatever page and limit a FREE non-admin account passes to
\* GET /api/alerts, every alert it receives is among the 5 newest alerts
\* that match the query at the time of the request.
C20_AsStated ==
    [][(resp'.op = "alerts" /\ resp'.status = 200) =>
          \A tok \in {resp'.req[1]}, type \in {resp'.req[2]},
             limit \in {resp'.req[3]}, page \in {resp'.req[4]} :
              (GetAlertsStep(tok, type, limit, page) /\ NonAdminFree(users'[resp'.uid])) =>
                  \A n \in DOMAIN resp'.items :
                      AmongNewest(alerts, AlertMatches(alerts, type, now), resp'.items[n])]_vars

\* C20 witness: a FREE non-admin account asked for the second page of five
\* and received an alert that five matching alerts are newer than
C20_BeyondPrefix ==
    /\ resp.op = "alerts" /\ resp.status = 200
    /\ NonAdminFree(users[resp.uid])
    /\ users[resp.uid].lastActive = now
    /\ resp.req[4] = 2
    /\ \E n \in DOMAIN resp.items :
          ~AmongNewest(alerts, AlertMatches(alerts, resp.req[2], now), resp.items[n])

----------------------------------------------------------------------------
(* Claims about the life of a token *)

\* The account was written after the token was issued: it logged in again,
\* updated its profile, or its subscription changed
WrittenSince(tok) ==
    /\ tok.userId \in DOMAIN users
    /\ users[tok.userId].updatedAt > tok.iat

\* C14: a token issued at register, login or refresh is accepted by
\* authenticateToken at every moment before its expiry and rejected at every
\* moment from its expiry on, whatever was done in between (further logins
\* and refreshes of the account, profile updates, downgrades, webhook
\* events): nothing revokes a token and nothing extends it.
C14_ValidUntilExpiry ==
    held # NoToken =>
        (authenticateToken(users, held, now).passed <=> now < held.exp)

\* C14 witness: the account logged in again after the token the client still
\* holds was issued and its subscription lapsed and was downgraded, and the
\* old token was accepted once more, one tick before its expiry
C14_Witness ==
    /\ held # NoToken /\ resp.op = "profile" /\ resp.req = held /\ resp.status = 200
    /\ now = held.exp - 1
    /\ users[held.userId].lastLogin > held.iat
    /\ Downgraded(users[held.userId], now)

----------------------------------------------------------------------------
(* Claims about the in-memory variant (src/unnamed/part_001) *)

\* The step is the login request l of the in-memory variant
DemoLoginStep(l) ==
    /\ resp'.op = "login" /\ resp'.req = l
    /\ DemoLogin(l[1], l[2])

\* C15 as stated: login issues a token for an account only if the supplied
\* password verifies against that account's stored credential hash.
C15_AsStated ==
    [][\A l \in {resp'.req} :
          (DemoLoginStep(l) /\ resp'.token # NoToken) =>
              bcryptCompare(l[2], users[resp'.uid].password)]_vars

\* C15 witness: a token was issued for an account although the password
\* supplied does not verify against the account's stored hash
C15_Bypass ==
    /\ resp.op = "login" /\ resp.status = 200 /\ resp.token # NoToken
    /\ resp.token.userId = resp.uid
    /\ ~bcryptCompare(resp.req[2], users[resp.uid].password)

----------------------------------------------------------------------------
(* Claims about the smallest variant (src/unnamed/part_000) *)

\* The stored credential is a salted hash
Hashed(credential) == credential.alg = "bcrypt"

\* C16 as stated: the account store never holds a password in plaintext
\* (only its salted hash), and no response of register, login or profile
\* includes the account's password or password hash.
C16_AsStated ==
    /\ \A i \in DOMAIN users : Hashed(users[i].password)
    /\ (resp.op \in {"register", "login", "profile"} /\ "body" \in DOMAIN resp) =>
          "password" \notin DOMAIN resp.body

\* C16 witness: a login was answered with the account as stored, and with it
\* the password the request carried, which the store holds as it is
C16_Leak ==
    /\ resp.op = "login" /\ resp.status = 200
    /\ "body" \in DOMAIN resp
    /\ resp.body.password = Plaintext(resp.req[2])
    /\ users[resp.uid].password = Plaintext(resp.req[2])

----------------------------------------------------------------------------
(* Claims about who may write alerts *)

\* The step is a create or a delete request of the in-memory variant
DemoAlertWriteStep ==
    \/ /\ resp'.op = "createAlert"
       /\ DemoCreateAlert(resp'.req[1], resp'.req[2], resp'.req[3])
    \/ /\ resp'.op = "deleteAlert"
       /\ DemoDeleteAlert(resp'.req[1], resp'.req[2])

\* The request carries a valid token of an account that is an admin
DemoByAdmin(tok) ==
    /\ DemoAuthFromHeader(tok, now)
    /\ tok.userId \in DOMAIN users
    /\ users[tok.userId].isAdmin

\* C17 as stated: every alert in the store was created by a request
\* authenticated as an account that was an admin at the time, and a create
\* or delete request that is unauthenticated or comes from a non-admin
\* account is rejected, leaves the alert store unchanged and emits no
\* broadcast.
C17_AsStated ==
    [][resp'.op \in {"createAlert", "deleteAlert"} =>
          ((DemoAlertWriteStep /\ ~DemoByAdmin(resp'.req[1])) =>
              /\ resp'.status \notin {200, 201}
              /\ alerts' = alerts
              /\ emitted' = emitted)]_vars

\* C17 witness: the store holds an alert that a request without a token
\* created, and its creation was broadcast
C17_Anonymous ==
    /\ resp.op = "createAlert" /\ resp.status = 201 /\ resp.req[1] = NoToken
    /\ \E n \in DOMAIN alerts : alerts[n].userId = 0
    /\ emitted # <<>>

----------------------------------------------------------------------------
(* Claims about store failures *)

\* The request has a step left to run, or has been answered
Progressing(r) ==
    inflight[r].pc \in {"idle", "loaded", "authenticated", "expired", "done"}

\* C18 as stated: every request that reaches authenticateToken or
\* checkSubscription receives a response, also when a store operation fails
\* at an await: no request is left unanswered with nothing more to run.
C18_AsStated == \A r \in DOMAIN inflight : Progressing(r)

\* C18 witness: the save of the downgrade failed for one request, which got
\* no response, while the account is still on its paid tier
C18_Unanswered ==
    /\ \E r \in DOMAIN inflight : inflight[r].pc = "unhandled"
    /\ users[held.userId].tier \in PaidTiers
    /\ resp.op = "none"

----------------------------------------------------------------------------
(* Claims about email uniqueness *)

\* The two emails are equal up to letter case
SameUpToCase(e1, e2) == toLowerCase(e1) = toLowerCase(e2)

\* C19 as stated: a register request whose email differs only in letter case
\* from a stored account's email is rejected as a conflict, so no two stored
\* accounts ever have emails that are equal up to case.
C19_AsStated ==
    \A i, j \in DOMAIN users :
        i # j => ~SameUpToCase(users[i].email, users[j].email)

\* C19 witness: a register request was accepted although its email differs
\* only in letter case from that of an account stored before
C19_CaseTwins ==
    /\ resp.op = "register" /\ resp.status = 201
    /\ \E i \in DOMAIN users :
          /\ i < resp.uid
          /\ users[i].email # users[resp.uid].email
          /\ SameUpToCase(users[i].email, resp.req[2])

----------------------------------------------------------------------------
(* Claims about a lapsed subscription and the listings *)

\* C21 as stated: a non-admin account whose subscriptionEndDate has passed
\* never receives more than 5 items from GET /api/alerts or
\* GET /api/users/active, whether or not it has requested a gated route
\* since the expiry.
C21_AsStated ==
    [][(resp'.op \in {"alerts", "active"} /\ resp'.status = 200) =>
          ((~users'[resp'.uid].isAdmin
               /\ Passed(users'[resp'.uid].subscriptionEndDate, now)) =>
              Len(resp'.items) <= FreeLimit)]_vars

\* C21 witness: a non-admin account whose period had ended, and that was
\* still stored as WEEKLY, listed the alerts and received more than five
C21_Unlimited ==
    /\ resp.op = "alerts" /\ resp.status = 200
    /\ ~users[resp.uid].isAdmin
    /\ users[resp.uid].tier = "WEEKLY"
    /\ Passed(users[resp.uid].subscriptionEndDate, users[resp.uid].lastActive)
    /\ Len(resp.items) > FreeLimit

----------------------------------------------------------------------------
(* Claims about a renewal that meets an expiry downgrade *)

\* The stored account holds a subscription that Stripe reported active and
\* whose period has not ended
Renewed(doc, t) ==
    /\ doc.subscriptionStatus = "active"
    /\ IsSet(doc.subscriptionEndDate)
    /\ ~Before(doc.subscriptionEndDate, t)

\* C22 as stated: a renewal is never lost to a concurrent expiry downgrade.
\* When every request in flight has finished and the account's stored
\* subscription is active with its end date not passed (a webhook stored
\* it, whether before, between or after the steps of the requests), the
\* stored tier is a paid tier, not FREE.
C22_AsStated ==
    (\A r \in Requests : Finished(r)) =>
        (Renewed(users[held.userId], now) => users[held.userId].tier \in PaidTiers)

\* C22 witness: a request was answered SUBSCRIPTION_EXPIRED, all requests
\* have finished, and the account is stored as FREE with an active
\* subscription whose period has not ended
C22_RenewalLost ==
    /\ \A r \in Requests : Finished(r)
    /\ \E r \in Requests : inflight[r].code = "SUBSCRIPTION_EXPIRED"
    /\ Renewed(users[held.userId], now)
    /\ users[held.userId].tier = "FREE"

----------------------------------------------------------------------------
(* Claims about concurrent register requests *)

\* The two requests name the same username or the same email
SameIdentity(q1, q2) == q1[1] = q2[1] \/ q1[2] = q2[2]

\* C23 as stated: whatever the interleaving of concurrent register
\* requests, no two stored accounts share a username or an email, and of
\* the requests for one username or email at most one succeeds.
C23_AsStated ==
    /\ \A i, j \in DOMAIN users :
          i # j => (users[i].username # users[j].username /\ users[i].email # users[j].email)
    /\ \A r1, r2 \in Requests :
          (r1 # r2 /\ Finished(r1) /\ Finished(r2)
              /\ SameIdentity(inflight[r1].req, inflight[r2].req)) =>
             ~(inflight[r1].status = 201 /\ inflight[r2].status = 201)

\* C23 witness: two requests for the same username and email were both
\* answered 201, and the store holds two accounts of that username
C23_Twins ==
    /\ \A r \in Requests : Finished(r) /\ inflight[r].status = 201
    /\ \E r1, r2 \in Requests : r1 # r2 /\ inflight[r1].req = inflight[r2].req
    /\ \E i, j \in DOMAIN users : i # j /\ users[i].username = users[j].username

----------------------------------------------------------------------------
(* Claims about a deleted subscription *)

\* The last subscription event processed for the account was the deletion
\* of its subscription: only that handler stores the status 'canceled'
Canceled(doc) == doc.subscriptionStatus = "canceled"

\* The step processes a checkout.session.completed event for account i
CheckoutStep(i) ==
    /\ resp'.op = "webhook" /\ resp'.code = "received"
    /\ resp'.req[1] = "checkout.session.completed"
    /\ resp'.req[2] = i

\* C24 as stated: once customer.subscription.deleted has been processed
\* for an account's subscription, the account's tier stays FREE and its
\* subscriptionEndDate stays unset through every step that is not a
\* checkout.session.completed event for that account; in particular a
\* customer.subscription.updated event for the same subscription id does
\* not restore a paid tier.
C24_AsStated ==
    [][\A i \in DOMAIN users :
          (Canceled(users[i]) /\ ~CheckoutStep(i)) =>
              /\ users'[i].tier = "FREE"
              /\ users'[i].subscriptionEndDate = NoDate]_vars

----------------------------------------------------------------------------
(* Claims about the admin flag *)

\* The step is a request made with the token of a stored admin account
ByAdmin ==
    /\ resp'.uid \in DOMAIN users
    /\ users[resp'.uid].isAdmin

\* C25 as stated: an account's isAdmin flag never changes from false to
\* true as the result of a request made by an account that is not itself
\* an admin.
C25_AsStated ==
    [][\A i \in DOMAIN users :
          (~users[i].isAdmin /\ users'[i].isAdmin) => ByAdmin]_vars

\* C25 witness: an account sent PUT /api/users/:id for its own id with
\* isAdmin true, was answered 200, and is stored as an admin; the store
\* starts without an admin, so no admin made the first such request
C25_SelfPromoted ==
    /\ resp.op = "updateUser" /\ resp.status = 200
    /\ resp.req[2] = resp.uid /\ resp.req[4] = TRUE
    /\ users[resp.uid].isAdmin
    /\ \A i \in DOMAIN users : i # resp.uid => ~users[i].isAdmin

----------------------------------------------------------------------------
(* Claims about the profile update *)

\* The step is PUT /api/users/profile with this token and body
UpdateProfileStep(tok, body) ==
    /\ resp'.op = "updateProfile" /\ resp'.req = <<tok, body>>
    /\ UpdateProfile(tok, body)

\* The profile fields of the account record
ProfileFields == {"bio", "tradingExperience", "isPublic"}

\* The two documents agree on every field outside fields
SameOutside(before, after, fields) ==
    \A f \in DOMAIN before \ fields : after[f] = before[f]

\* C26 as stated: PUT /api/users/profile changes only the profile fields
\* and updatedAt of the requesting account, leaves every other field of it
\* and every other account unchanged, and changes nothing at all when it
\* answers with an error.
C26_AsStated ==
    [][resp'.op = "updateProfile" =>
          \A tok \in {resp'.req[1]}, body \in {resp'.req[2]} :
              UpdateProfileStep(tok, body) =>
                  /\ \A i \in DOMAIN users : i # tok.userId => users'[i] = users[i]
                  /\ tok.userId \in DOMAIN users =>
                        SameOutside(users[tok.userId], users'[tok.userId],
                                    ProfileFields \cup {"updatedAt"})
                  /\ resp'.status # 200 => users' = users]_vars

\* C26, amended: PUT /api/users/profile changes only the profile fields,
\* updatedAt and lastActive of the requesting account: whatever the body
\* contains, its tier, isAdmin, password, username, email, login and
\* subscription fields and every other account are left unchanged; a
\* profile field changes only when the request is answered 200, and then
\* to the value the body gives (bio without surrounding whitespace); when
\* the request is answered with an error the store is as authenticateToken
\* left it (lastActive and updatedAt written for an accepted token, nothing
\* otherwise).
C26_Frame ==
    [][resp'.op = "updateProfile" =>
          \A tok \in {resp'.req[1]}, body \in {resp'.req[2]} :
              UpdateProfileStep(tok, body) =>
                  /\ \A i \in DOMAIN users : i # tok.userId => users'[i] = users[i]
                  /\ tok.userId \in DOMAIN users =>
                        SameOutside(users[tok.userId], users'[tok.userId],
                                    ProfileFields \cup {"updatedAt", "lastActive"})
                  /\ resp'.status # 200 => users' = authenticateToken(users, tok, now).users
                  /\ resp'.status = 200 =>
                        \A f \in ProfileFields :
                            users'[tok.userId][f] =
                                (IF f \notin DOMAIN body THEN users[tok.userId][f]
                                 ELSE IF f = "bio" THEN trim(body[f])
                                 ELSE body[f])]_vars

\* C26 witness: a non-admin FREE account sent a body that names isAdmin and
\* tier besides bio, was answered 200, and is stored with the new bio, still
\* FREE and no admin
C26_Witness ==
    /\ resp.op = "updateProfile" /\ resp.status = 200
    /\ {"bio", "isAdmin", "tier"} \subseteq DOMAIN resp.req[2]
    /\ resp.req[2].isAdmin /\ resp.req[2].tier = "MONTHLY"
    /\ users[resp.uid].bio = resp.req[2].bio
    /\ ~users[resp.uid].isAdmin /\ users[resp.uid].tier = "FREE"

----------------------------------------------------------------------------
(* Claims about loginCount *)

\* The logins answered 200
SuccessfulLogins ==
    {r \in Requests : /\ Finished(r)
                      /\ "login" \in DOMAIN inflight[r]
                      /\ inflight[r].status = 200}

\* C27 as stated: the loginCount of a registered account is 1 plus the
\* number of its successful logins since registration, whatever the
\* interleaving of concurrent logins and authenticated requests.
C27_AsStated ==
    users[held.userId].loginCount = 1 + Cardinality(SuccessfulLogins)

\* C27 witness: every request was a login answered 200, there were at least
\* two of them, and the account's loginCount is 2
C27_LostUpdate ==
    /\ SuccessfulLogins = Requests
    /\ Cardinality(Requests) >= 2
    /\ users[held.userId].loginCount = 2

----------------------------------------------------------------------------
(* Claims about alert ids *)

\* C28 as stated: after any sequence of alert creations and deletions
\* every stored alert has an id different from every other stored alert's
\* id.
C28_AsStated ==
    \A m, n \in DOMAIN alerts : m # n => alerts[m].id # alerts[n].id

\* C28 witness: an alert was deleted, then one was created, and the new
\* alert carries the id of an alert stored before it
C28_SameId ==
    /\ resp.op = "createAlert" /\ resp.status = 201
    /\ \E n \in DOMAIN emitted : emitted[n][1] = "alert-deleted"
    /\ \E m \in DOMAIN alerts :
          m < Len(alerts) /\ alerts[m].id = alerts[Len(alerts)].id

----------------------------------------------------------------------------
(* Claims about the broadcasts *)

\* The step ends request r
Finishes(r) == inflight[r].pc # "done" /\ inflight'[r].pc = "done"

\* The step ends request r with a success (201 for a creation, 200 for a
\* deletion)
Succeeds(r) == Finishes(r) /\ inflight'[r].status \in {200, 201}

\* The broadcast that belongs to the request r
BroadcastOf(r) ==
    <<IF inflight'[r].op = "createAlert" THEN "newAlert" ELSE "alertDeleted",
      inflight'[r].id>>

\* One broadcast per success, at the step that answers the request and
\* after the store change; no broadcast in any other step
EmitRule ==
    /\ \A r \in Requests : Succeeds(r) => emitted' = Append(emitted, BroadcastOf(r))
    /\ (\A r \in Requests : ~Succeeds(r)) => emitted' = emitted
    /\ \A r \in Requests :
          Succeeds(r) =>
              IF inflight'[r].op = "createAlert"
              THEN inflight'[r].id \in DOMAIN alerts /\ alerts' = alerts
              ELSE ~Stored(alerts, inflight'[r].id) /\ alerts' = alerts

\* C29 as stated: each successful alert creation emits exactly one
\* newAlert and each successful deletion exactly one alertDeleted, after
\* the store change; a request that fails emits none; and when newAlert is
\* emitted for an alert, the store holds that alert.
C29_AsStated ==
    [][/\ EmitRule
       /\ \A r \in Requests :
             (Succeeds(r) /\ inflight'[r].op = "createAlert") =>
                 Stored(alerts', inflight'[r].id)]_vars

\* C29, amended: each successful alert creation emits exactly one newAlert
\* and each successful deletion exactly one alertDeleted, in the step that
\* answers the request and after the store change has been made (the alert
\* was inserted, respectively removed, in an earlier step); a request that
\* fails (no or bad token, non-admin, missing fields, not found, store
\* error) emits none.
C29_Broadcasts == [][EmitRule]_vars

\* C29 witness: an alert was created and then deleted, both requests
\* succeeded, and the two broadcasts went out in that order
C29_Witness ==
    /\ \E r1, r2 \in Requests :
          /\ Finished(r1) /\ inflight[r1].op = "createAlert" /\ inflight[r1].status = 201
          /\ Finished(r2) /\ inflight[r2].op = "deleteAlert" /\ inflight[r2].status = 200
          /\ inflight[r1].id = inflight[r2].id
          /\ emitted = <<<<"newAlert", inflight[r1].id>>, <<"alertDeleted", inflight[r2].id>>>>
    /\ ~Stored(alerts, 1)

====
